---- MODULE Spec2Model ----
(***************************************************************************)
(* Model of the dual-source retrieval engine of LibraryBot                 *)
(* (src/flibusta_client.py): the HTML adapter, the OPDS (feed) adapter and *)
(* the fallback orchestrator FlibustaClient.search_books /                 *)
(* search_authors / get_author_books.                                      *)
(*                                                                         *)
(* Text is a sequence of tokens.  A token is one character, one HTML       *)
(* entity ("&amp;") or one markup tag ("<b>").  Characters are compared    *)
(* by code point, as Python compares str.                                  *)
(***************************************************************************)
EXTENDS Integers, Sequences, FiniteSets, TLC

\* Python's None where an object is expected: an absent result, no regex match.
None == [none |-> TRUE]

\* Python's None where a str is expected (the text of an empty XML element).
NoText == <<"None">>

----------------------------------------------------------------------------
(* Bounds of the model *)

\* lines / anchors of one HTML response
MaxLines == 3
\* entries of one feed document
MaxEntries == 2
\* largest page index a caller asks for
MaxPage == 1

----------------------------------------------------------------------------
(* Text *)

\* Code points of the characters the model's texts are written in
\* (cy_* are the Cyrillic letters of the labels in _http_get_author_books).
Ord ==
  [c \in {" ", "2", "A", "F", "M", "U", "Z", "a", "b", "c", "e", "f", "i", "k", "m",
          "n", "o", "p", "r", "t", "u", "w", "x",
          "cy_A", "cy_a", "cy_ch", "cy_f", "cy_i", "cy_k", "cy_l", "cy_s",
          "cy_soft", "cy_t", "cy_v"} |->
     CASE c = " " -> 32    [] c = "2" -> 50
       [] c = "A" -> 65    [] c = "F" -> 70
       [] c = "M" -> 77    [] c = "U" -> 85
       [] c = "Z" -> 90    [] c = "a" -> 97    [] c = "b" -> 98
       [] c = "c" -> 99    [] c = "e" -> 101   [] c = "f" -> 102
       [] c = "i" -> 105   [] c = "k" -> 107   [] c = "m" -> 109
       [] c = "n" -> 110   [] c = "o" -> 111   [] c = "p" -> 112
       [] c = "r" -> 114   [] c = "t" -> 116   [] c = "u" -> 117
       [] c = "w" -> 119   [] c = "x" -> 120
       [] c = "cy_A" -> 1040   [] c = "cy_v" -> 1074  [] c = "cy_l" -> 1083
       [] c = "cy_f" -> 1092
       [] c = "cy_a" -> 1072   [] c = "cy_i" -> 1080  [] c = "cy_k" -> 1082
       [] c = "cy_s" -> 1089   [] c = "cy_t" -> 1090  [] c = "cy_ch" -> 1095
       [] c = "cy_soft" -> 1100]

Tags == {"<b>", "</b>"}

\* re.sub(r'<[^>]+>', '', text)
RECURSIVE StripTags(_)
StripTags(s) ==
  IF s = <<>> THEN <<>>
  ELSE IF Head(s) \in Tags THEN StripTags(Tail(s))
       ELSE <<Head(s)>> \o StripTags(Tail(s))

\* the chain of str.replace calls: one entity token becomes one character
Unescape(tok) ==
  CASE tok = "&lt;"   -> "<"
    [] tok = "&gt;"   -> ">"
    [] tok = "&amp;"  -> "&"
    [] tok = "&nbsp;" -> " "
    [] tok = "&quot;" -> "\""
    [] OTHER -> tok

RECURSIVE LStrip(_)
LStrip(s) ==
  IF s = <<>> THEN <<>>
  ELSE IF Head(s) = " " THEN LStrip(Tail(s)) ELSE s

RECURSIVE RStrip(_)
RStrip(s) ==
  IF s = <<>> THEN <<>>
  ELSE IF s[Len(s)] = " " THEN RStrip(SubSeq(s, 1, Len(s) - 1)) ELSE s

\* str.strip()
Strip(s) == RStrip(LStrip(s))

\* FlibustaClient._clean_html
clean_html(text) ==
  LET noTags == StripTags(text)
  IN  Strip([i \in 1..Len(noTags) |-> Unescape(noTags[i])])

\* code point of one token of a cleaned text
Code(c) == IF c \in DOMAIN Ord THEN Ord[c] ELSE 38

\* str.lower() on one code point: Latin A-Z and Cyrillic capitals
LowerCode(n) ==
  IF (65 <= n /\ n <= 90) \/ (1040 <= n /\ n <= 1071) THEN n + 32 ELSE n

\* str.lower() as a sequence of code points
lower(s) == [i \in 1..Len(s) |-> LowerCode(Code(s[i]))]

\* Python's str comparison a <= b on code point sequences
RECURSIVE StrLeq(_, _)
StrLeq(a, b) ==
  IF a = <<>> THEN TRUE
  ELSE IF b = <<>> THEN FALSE
  ELSE IF Head(a) < Head(b) THEN TRUE
  ELSE IF Head(a) > Head(b) THEN FALSE
  ELSE StrLeq(Tail(a), Tail(b))

StrLess(a, b) == StrLeq(a, b) /\ a # b

\* list.sort(key=...): a stable sort; keys[i] is the key of s[i].
\* Insert places index x after every index whose key is not greater.
RECURSIVE Insert(_, _, _)
Insert(sorted, x, keys) ==
  IF sorted = <<>> THEN <<x>>
  ELSE IF StrLess(keys[x], keys[Head(sorted)]) THEN <<x>> \o sorted
       ELSE <<Head(sorted)>> \o Insert(Tail(sorted), x, keys)

RECURSIVE SortPerm(_, _)
SortPerm(n, keys) ==
  IF n = 0 THEN <<>> ELSE Insert(SortPerm(n - 1, keys), n, keys)

list_sort(s, keys) ==
  LET p == SortPerm(Len(s), keys) IN [i \in 1..Len(s) |-> s[p[i]]]

\* urllib.parse.quote(query, safe=''): letters and digits are kept, every
\* other character becomes its percent escape
RECURSIVE quote(_)
quote(q) ==
  IF q = <<>> THEN <<>>
  ELSE (IF Head(q) = " " THEN <<"%", "2", "0">> ELSE <<Head(q)>>)
       \o quote(Tail(q))

\* all sequences over S of length lo..hi
SeqsOf(S, lo, hi) == UNION {[1..n -> S] : n \in lo..hi}

----------------------------------------------------------------------------
(* Entities *)

\* config.FLIBUSTA_BASE_URL
FLIBUSTA_BASE_URL == "http://flibusta.is"

\* An URL or href is [prefix, segs]: prefix is the scheme and host of an
\* absolute URL, "/" for a path that starts with a slash, "" for a path that
\* does not; segs are the path segments.
Url(prefix, segs) == [prefix |-> prefix, segs |-> segs]

\* dataclass DownloadLink
DownloadLink(url, format, mime_type) ==
  [url |-> url, format |-> format, mime_type |-> mime_type]

\* dataclass Author (books_count is never set by the client)
Author(id, name, uri) == [id |-> id, name |-> name, uri |-> uri]

\* dataclass Book (the optional fields the adapters never read are left out)
Book(id, title, authors, download_links) ==
  [id |-> id, title |-> title, authors |-> authors,
   download_links |-> download_links]

\* dataclass SearchResult
SearchResult(items, has_more, source) ==
  [items |-> items, total_count |-> 0, has_more |-> has_more,
   source |-> source]

\* mutant of Productive: a result counts only from its second item on
ProductiveFromTwo(result) == result # None /\ Len(result.items) > 1

\* "result and result.items" of the orchestrator
Productive(result) == result # None /\ result.items # <<>>

----------------------------------------------------------------------------
(* What the HTML source can answer *)

BookIds == {"1", "2", "3"}
AuthorIds == {"7", "8"}

Anchor(id, text) == [id |-> id, text |-> text]

\* book anchors: every id under two titles, and one whose text cleans to
\* nothing
BookAnchors ==
  { Anchor("1", <<"Z">>), Anchor("1", <<"a">>),
    Anchor("2", <<"a">>), Anchor("2", <<"M">>),
    Anchor("3", <<"M">>), Anchor("3", <<"Z">>),
    Anchor("1", <<"&nbsp;">>) }

\* One line of the search page: whether it contains '/s/', the first book
\* anchor on it and the first author anchor on it (None: no such anchor).
HtmlLine(series, book, author) ==
  [series |-> series, book |-> book, author |-> author]

HtmlLines ==
  {HtmlLine(FALSE, b, None) : b \in BookAnchors}
  \cup {HtmlLine(TRUE, Anchor("1", <<"a">>), None),
        HtmlLine(FALSE, None, None),
        HtmlLine(FALSE, Anchor("2", <<"Z">>), Anchor("7", <<"x">>))}

\* the numbers N for which the page text contains 'page=N'
PageMarks == {{}, {2}, {12}}

\* response.text of an empty body
EmptyText == [empty |-> TRUE]

\* A response: a transport error, a non-success status, or a body.
Response(kind, text) == [kind |-> kind, text |-> text]
Failures == {Response("transport_error", EmptyText),
             Response("bad_status", EmptyText),
             Response("ok", EmptyText)}

HttpBookResponses ==
  Failures \cup
  {Response("ok", [lines |-> l, marks |-> m]) :
     l \in SeqsOf(HtmlLines, 1, MaxLines), m \in PageMarks}

\* FlibustaClient._http_request: None on httpx.HTTPError, else response.text
http_request(resp) == IF resp.kind = "ok" THEN resp.text ELSE None

\* "not html_content"
Falsy(content) == content = None \/ content = EmptyText

\* mutant of SynthLinks: the link of the last format is left out
SynthLinksNoMobi(book_id) ==
  << DownloadLink(Url(FLIBUSTA_BASE_URL, <<"b", book_id, "fb2">>), "fb2", ""),
     DownloadLink(Url(FLIBUSTA_BASE_URL, <<"b", book_id, "epub">>), "epub", "") >>

\* the three links the HTML adapter builds for a book id
SynthLinks(book_id) ==
  << DownloadLink(Url(FLIBUSTA_BASE_URL, <<"b", book_id, "fb2">>), "fb2", ""),
     DownloadLink(Url(FLIBUSTA_BASE_URL, <<"b", book_id, "epub">>), "epub", ""),
     DownloadLink(Url(FLIBUSTA_BASE_URL, <<"b", book_id, "mobi">>), "mobi", "") >>

\* _http_search_books, the body of "for line in lines" for one line:
\* the books that line adds (none or one)
LineBooks(line) ==
  IF line.series \/ line.book = None THEN <<>>
  ELSE LET title == clean_html(line.book.text)
           author_name ==
             IF line.author = None THEN <<>> ELSE clean_html(line.author.text)
           authors ==
             IF author_name # <<>>
             THEN <<Author(line.author.id, author_name, Url("", <<>>))>>
             ELSE <<>>
       IN  IF title = <<>> THEN <<>>
           ELSE <<Book(line.book.id, title, authors, SynthLinks(line.book.id))>>

\* _http_search_books, "for line in lines"
RECURSIVE ExtractBooks(_)
ExtractBooks(lines) ==
  IF lines = <<>> THEN <<>>
  ELSE LineBooks(Head(lines)) \o ExtractBooks(Tail(lines))

\* _http_search_books, "Remove duplicates": the first book of each id is kept
RECURSIVE unique_books(_, _)
unique_books(books, seen_ids) ==
  IF books = <<>> THEN <<>>
  ELSE IF Head(books).id \in seen_ids
       THEN unique_books(Tail(books), seen_ids)
       ELSE <<Head(books)>>
            \o unique_books(Tail(books), seen_ids \cup {Head(books).id})

\* mutant of TitleKey: key=lambda b: b.title, the case is not folded
TitleKeyCaseSensitive(b) == [i \in 1..Len(b.title) |-> Code(b.title[i])]

\* key=lambda b: b.title.lower()
TitleKey(b) == lower(b.title)

\* key=lambda a: a.name.lower()
NameKey(a) == lower(a.name)

\* books.sort(key=lambda b: b.title.lower())
SortByTitle(books) ==
  list_sort(books, [i \in 1..Len(books) |-> TitleKey(books[i])])

\* authors.sort(key=lambda a: a.name.lower())
SortByName(authors) ==
  list_sort(authors, [i \in 1..Len(authors) |-> NameKey(authors[i])])

\* str(n) is a prefix of str(m), for n >= 1
RECURSIVE DecPrefix(_, _)
DecPrefix(n, m) == m = n \/ (m >= 10 /\ DecPrefix(n, m \div 10))

\* mutant of HasPageMark: the number after 'page=' is compared as a whole
HasPageMarkExact(html_content, page) == page + 1 \in html_content.marks

\* f'page={page + 1}' in html_content
HasPageMark(html_content, page) ==
  \E m \in html_content.marks : DecPrefix(page + 1, m)

\* mutant of NormalizeHtmlBooks: the list is sorted before the duplicates
\* are removed
NormalizeSortFirst(books) == unique_books(SortByTitle(books), {})

\* the deduplication and the sort of _http_search_books
NormalizeHtmlBooks(books) == SortByTitle(unique_books(books, {}))

\* FlibustaClient._http_search_books, given the response to its request
http_search_books(resp, page) ==
  LET html_content == http_request(resp)
  IN  IF Falsy(html_content) THEN None
      ELSE SearchResult(NormalizeHtmlBooks(ExtractBooks(html_content.lines)),
                        HasPageMark(html_content, page), "http")

\* anchor texts of author links
NameTexts == {<<"Z">>, <<"<b>", "a", "</b>">>, <<"M">>, <<" ">>}

\* The author search page: whether the 'found writers' heading with its
\* list is there, the author anchors inside that list, and the author
\* anchors elsewhere on the page.
HttpAuthorResponses ==
  Failures \cup
  {Response("ok", [heading |-> h, section |-> s, outside |-> o]) :
     h \in BOOLEAN,
     s \in SeqsOf({Anchor(i, t) : i \in AuthorIds, t \in NameTexts},
                  0, MaxLines),
     o \in {<<>>, <<Anchor("8", <<"a">>)>>}}

\* _http_search_authors, "for match in author_pattern.finditer(...)"
RECURSIVE ExtractAuthors(_, _)
ExtractAuthors(anchors, seen_ids) ==
  IF anchors = <<>> THEN <<>>
  ELSE LET author_id == Head(anchors).id
           name == clean_html(Head(anchors).text)
       IN  IF author_id \in seen_ids \/ name = <<>>
           THEN ExtractAuthors(Tail(anchors), seen_ids)
           ELSE <<Author(author_id, name, Url("/", <<"a", author_id>>))>>
                \o ExtractAuthors(Tail(anchors), seen_ids \cup {author_id})

\* mutant of http_search_authors: the author anchors of the whole page are
\* taken, with or without the heading
http_search_authors_whole_page(resp) ==
  LET html_content == http_request(resp)
  IN  IF Falsy(html_content) THEN None
      ELSE SearchResult(
             SortByName(ExtractAuthors(html_content.section
                                       \o html_content.outside, {})),
             FALSE, "http")

\* FlibustaClient._http_search_authors, given the response to its request
http_search_authors(resp) ==
  LET html_content == http_request(resp)
  IN  IF Falsy(html_content) THEN None
      ELSE LET authors ==
                 IF html_content.heading
                 THEN ExtractAuthors(html_content.section, {}) ELSE <<>>
           IN  SearchResult(SortByName(authors), FALSE, "http")

\* the anchor texts _http_get_author_books takes for action labels
Labels ==
  { <<"cy_ch", "cy_i", "cy_t", "cy_a", "cy_t", "cy_soft">>,
    <<"cy_s", "cy_k", "cy_a", "cy_ch", "cy_a", "cy_t", "cy_soft">>,
    <<"f", "b", "2">>, <<"e", "p", "u", "b">>, <<"m", "o", "b", "i">>,
    <<"r", "t", "f">>, <<"t", "x", "t">> }

LabelKeys == {lower(l) : l \in Labels}

\* The author page: its book anchors in document order.
HttpAuthorBooksResponses ==
  Failures \cup
  {Response("ok", [anchors |-> a]) :
     a \in SeqsOf(BookAnchors \cup {Anchor("1", <<"F", "b", "2">>)},
                  0, MaxLines)}

\* mutant of ExtractAuthorBooks: the id is remembered before the text is
\* compared with the labels
RECURSIVE ExtractAuthorBooksLabelConsumes(_, _, _)
ExtractAuthorBooksLabelConsumes(anchors, seen_ids, author_id) ==
  IF anchors = <<>> THEN <<>>
  ELSE LET book_id == Head(anchors).id
           title == clean_html(Head(anchors).text)
           rest == ExtractAuthorBooksLabelConsumes(
                     Tail(anchors), seen_ids \cup {book_id}, author_id)
       IN  IF book_id \in seen_ids \/ title = <<>>
           THEN ExtractAuthorBooksLabelConsumes(Tail(anchors), seen_ids,
                                                author_id)
           ELSE IF lower(title) \in LabelKeys THEN rest
           ELSE <<Book(book_id, title,
                       <<Author(author_id, <<>>, Url("", <<>>))>>,
                       SynthLinks(book_id))>> \o rest

\* _http_get_author_books, "for match in book_pattern.finditer(...)"
RECURSIVE ExtractAuthorBooks(_, _, _)
ExtractAuthorBooks(anchors, seen_ids, author_id) ==
  IF anchors = <<>> THEN <<>>
  ELSE LET book_id == Head(anchors).id
           title == clean_html(Head(anchors).text)
       IN  IF book_id \in seen_ids \/ title = <<>>
           THEN ExtractAuthorBooks(Tail(anchors), seen_ids, author_id)
           ELSE IF lower(title) \in LabelKeys
           THEN ExtractAuthorBooks(Tail(anchors), seen_ids, author_id)
           ELSE <<Book(book_id, title,
                       <<Author(author_id, <<>>, Url("", <<>>))>>,
                       SynthLinks(book_id))>>
                \o ExtractAuthorBooks(Tail(anchors), seen_ids \cup {book_id},
                                      author_id)

\* FlibustaClient._http_get_author_books from the page it got (the response
\* to the /alphabet request or, when that failed, to the plain one)
http_get_author_books(html_content, author_id) ==
  SearchResult(SortByTitle(ExtractAuthorBooks(html_content.anchors, {},
                                              author_id)),
               FALSE, "http")

----------------------------------------------------------------------------
(* What the feed (OPDS) source can answer *)

\* an XML element with its text (NoText: the element is empty);
\* None stands for a missing element
Elem(text) == [text |-> text]

\* <link rel=... type=... href=...>; a MIME type is its parts between '/'
Link(rel, type, href) == [rel |-> rel, type |-> type, href |-> href]

\* <entry>: its <title> and its <link>s in document order
Entry(title, links) == [title |-> title, links |-> links]

AcqRel == "http://opds-spec.org/acquisition/open-access"

Fb2Link(id) ==
  Link(AcqRel, <<"application", "fb2+zip">>, Url("/", <<"b", id, "fb2">>))
ViewerLink ==
  Link(AcqRel, <<"text", "html">>, Url("/", <<"b", "1", "read">>))
CustomLink ==
  Link(AcqRel, <<"application", "x-custom">>, Url("", <<"b", "2", "custom">>))
AltLink ==
  Link("alternate", <<"text", "html">>, Url("/", <<"b", "3">>))

FeedLinkLists ==
  { <<>>, <<Fb2Link("1")>>, <<Fb2Link("2")>>, <<ViewerLink>>, <<CustomLink>>,
    <<ViewerLink, Fb2Link("1")>>, <<AltLink, Fb2Link("2")>> }

FeedTitles == {None, Elem(NoText), Elem(<<"Z">>), Elem(<<"a">>)}

\* every title over a plain download link, every link list under a title
FeedBookEntries ==
  {Entry(t, <<Fb2Link(i)>>) : t \in FeedTitles, i \in {"1", "2"}}
  \cup {Entry(Elem(<<"Z">>), l) : l \in FeedLinkLists}

\* a document that is not well-formed XML
Malformed == [malformed |-> TRUE]

\* a feed document: its entries and whether the root has a link rel="next"
Feed(entries, next) == [entries |-> entries, next |-> next]

OpdsBookResponses ==
  Failures \cup {Response("ok", Malformed)} \cup
  {Response("ok", Feed(e, n)) :
     e \in SeqsOf(FeedBookEntries, 0, MaxEntries), n \in BOOLEAN}

\* the digit runs the sources use as identifiers
Digits == BookIds \cup AuthorIds

\* re.search(r'/<key>/(\d+)', href): the identifier after the first
\* '/<key>/' that is followed by digits, or "" when there is no match.
\* segs[i] is preceded by '/' unless it is the first segment of a path
\* that does not start with one.
RECURSIVE FindId(_, _, _)
FindId(href, key, i) ==
  IF i >= Len(href.segs) THEN ""
  ELSE IF /\ href.segs[i] = key
          /\ (i > 1 \/ href.prefix # "")
          /\ href.segs[i + 1] \in Digits
       THEN href.segs[i + 1]
       ELSE FindId(href, key, i + 1)

\* the loop "for link in entry.findall('atom:link')" with its break:
\* the identifier of the first link that carries one
RECURSIVE FirstId(_, _)
FirstId(links, key) ==
  IF links = <<>> THEN ""
  ELSE IF FindId(Head(links).href, key, 1) # ""
       THEN FindId(Head(links).href, key, 1)
       ELSE FirstId(Tail(links), key)

\* format_map of _opds_parse_download_links
format_map ==
  [m \in { <<"application", "fb2+zip">>, <<"application", "fb2">>,
           <<"application", "epub+zip">>, <<"application", "epub">>,
           <<"application", "pdf">>,
           <<"application", "x-mobipocket-ebook">> } |->
     CASE m = <<"application", "fb2+zip">> -> "fb2"
       [] m = <<"application", "fb2">> -> "fb2"
       [] m = <<"application", "epub+zip">> -> "epub"
       [] m = <<"application", "epub">> -> "epub"
       [] m = <<"application", "pdf">> -> "pdf"
       [] m = <<"application", "x-mobipocket-ebook">> -> "mobi"]

\* 'acquisition' in rel
IsAcquisition(rel) == rel \in {AcqRel, "http://opds-spec.org/acquisition"}

\* 'text/html' in mime_type
IsHtmlType(mime_type) ==
  \E i \in 1..(Len(mime_type) - 1) :
     mime_type[i] = "text" /\ mime_type[i + 1] = "html"

\* urljoin(FLIBUSTA_BASE_URL, href) for a relative href
urljoin(base, href) == Url(base, href.segs)

\* mutant of opds_parse_download_links: the table is not consulted, every
\* format is the text after the last '/'
RECURSIVE ParseLinksNoTable(_)
ParseLinksNoTable(links) ==
  IF links = <<>> THEN <<>>
  ELSE LET link == Head(links)
           full_url ==
             IF link.href.prefix = "/"
             THEN urljoin(FLIBUSTA_BASE_URL, link.href) ELSE link.href
       IN  (IF IsAcquisition(link.rel) /\ ~IsHtmlType(link.type)
            THEN <<DownloadLink(full_url, link.type[Len(link.type)],
                                link.type)>>
            ELSE <<>>)
           \o ParseLinksNoTable(Tail(links))

\* _opds_parse_download_links
RECURSIVE opds_parse_download_links(_)
opds_parse_download_links(links) ==
  IF links = <<>> THEN <<>>
  ELSE LET link == Head(links)
           file_format ==
             IF link.type \in DOMAIN format_map THEN format_map[link.type]
             ELSE link.type[Len(link.type)]
           full_url ==
             IF link.href.prefix = "/"
             THEN urljoin(FLIBUSTA_BASE_URL, link.href) ELSE link.href
       IN  (IF IsAcquisition(link.rel) /\ ~IsHtmlType(link.type)
            THEN <<DownloadLink(full_url, file_format, link.type)>>
            ELSE <<>>)
           \o opds_parse_download_links(Tail(links))

\* _opds_parse_book (the model's entries carry no author, language or
\* content element)
opds_parse_book(entry) ==
  Book(FirstId(entry.links, "b"),
       IF entry.title # None THEN entry.title.text ELSE
         <<"U", "n", "k", "n", "o", "w", "n">>,
       <<>>,
       opds_parse_download_links(entry.links))

\* mutant of OpdsBooks: a book without download links is kept
RECURSIVE OpdsBooksKeepAll(_)
OpdsBooksKeepAll(entries) ==
  IF entries = <<>> THEN <<>>
  ELSE <<opds_parse_book(Head(entries))>> \o OpdsBooksKeepAll(Tail(entries))

\* "for entry in root.findall('atom:entry'): ... if book.download_links"
RECURSIVE OpdsBooks(_)
OpdsBooks(entries) ==
  IF entries = <<>> THEN <<>>
  ELSE LET book == opds_parse_book(Head(entries))
       IN  (IF book.download_links # <<>> THEN <<book>> ELSE <<>>)
           \o OpdsBooks(Tail(entries))

\* an exception that leaves the function
Raised(exc) == [raise |-> exc]

\* the exceptions the "except ET.ParseError" clauses of the feed adapter
\* catch
OpdsCaught == {"ParseError"}

\* books.sort(key=lambda b: b.title.lower()) raises AttributeError when
\* the title of a book is None
SortRaises(books) == \E i \in 1..Len(books) : books[i].title = NoText

\* an exception the except clause of the adapter catches becomes None,
\* any other leaves the adapter
Guarded(exc) == IF exc \in OpdsCaught THEN None ELSE Raised(exc)

\* mutant of OpdsBookResult: the result is labelled with the HTML source
OpdsBookResultHttpLabel(root, has_more) ==
  LET books == OpdsBooks(root.entries)
  IN  IF SortRaises(books) THEN Guarded("AttributeError")
      ELSE SearchResult(SortByTitle(books), has_more, "http")

\* the tail of the try blocks of _opds_search_books and
\* _opds_get_author_books: the books of a parsed document, sorted
OpdsBookResult(root, has_more) ==
  LET books == OpdsBooks(root.entries)
  IN  IF SortRaises(books) THEN Guarded("AttributeError")
      ELSE SearchResult(SortByTitle(books), has_more, "opds")

\* FlibustaClient._opds_request
opds_request(resp) == IF resp.kind = "ok" THEN resp.text ELSE None

\* FlibustaClient._opds_search_books, given the response to its request
opds_search_books(resp, page) ==
  LET xml_content == opds_request(resp)
  IN  IF Falsy(xml_content) THEN None
      ELSE IF xml_content = Malformed THEN Guarded("ParseError")
      ELSE OpdsBookResult(xml_content, xml_content.next)

AuthorLink(id) ==
  Link("subsection", <<"application", "atom+xml">>,
       Url("/", <<"opds", "author", id>>))

FeedAuthorEntries ==
  {Entry(t, l) : t \in FeedTitles \cup {Elem(<<"M">>)},
                 l \in {<<>>, <<AuthorLink("7")>>, <<AuthorLink("8")>>}}

OpdsAuthorResponses ==
  Failures \cup {Response("ok", Malformed)} \cup
  {Response("ok", Feed(e, n)) :
     e \in SeqsOf(FeedAuthorEntries, 0, MaxEntries), n \in BOOLEAN}

\* _opds_search_authors, "for entry in root.findall('atom:entry')"
RECURSIVE OpdsAuthors(_)
OpdsAuthors(entries) ==
  IF entries = <<>> THEN <<>>
  ELSE LET title == Head(entries).title
           author_id == FirstId(Head(entries).links, "author")
       IN  (IF title # None /\ title.text # NoText
            THEN <<Author(author_id, title.text,
                          Url("/", <<"a", author_id>>))>>
            ELSE <<>>)
           \o OpdsAuthors(Tail(entries))

\* FlibustaClient._opds_search_authors, given the response to its request
opds_search_authors(resp, page) ==
  LET xml_content == opds_request(resp)
  IN  IF Falsy(xml_content) THEN None
      ELSE IF xml_content = Malformed THEN Guarded("ParseError")
      ELSE SearchResult(SortByName(OpdsAuthors(xml_content.entries)),
                        FALSE, "opds")

\* needle occurs in hay (both sequences): "x in s" on str
Contains(hay, needle) ==
  \E i \in 0..(Len(hay) - Len(needle)) :
     SubSeq(hay, i + 1, i + Len(needle)) = needle

\* the title "Alfavit" in Cyrillic, and its lower-case form as the code
\* points _opds_get_author_books looks for
AlphabetTitle == <<"cy_A", "cy_l", "cy_f", "cy_a", "cy_v", "cy_i", "cy_t">>
AlphabetKey == lower(AlphabetTitle)

AlphabetHref(prefix) == Url(prefix, <<"opds", "author", "7", "alphabet">>)
NavLink(href) == Link("subsection", <<"application", "atom+xml">>, href)

\* entries of an author's root document that lead to other documents, or
\* look as if they did: the title of the last one is a book's
FeedNavEntries ==
  { Entry(Elem(AlphabetTitle),
          <<NavLink(Url("/", <<"opds", "authorbooks", "7">>))>>),
    Entry(Elem(<<"Z">>), <<NavLink(AlphabetHref(""))>>),
    Entry(Elem(AlphabetTitle), <<>>),
    Entry(Elem(AlphabetTitle), <<Fb2Link("2")>>) }

\* root documents with such entries: one or two entries, one of them a
\* plain book at most
NavRoots ==
  {e \in SeqsOf(FeedNavEntries \cup {Entry(Elem(<<"Z">>), <<Fb2Link("1")>>)},
                1, 2) :
     \E i \in 1..Len(e) : e[i] \in FeedNavEntries}

\* the entries of a listing: books under two titles and two ids, a book
\* without links and one with a link of an unlisted type
ListingEntries ==
  { Entry(Elem(<<"Z">>), <<Fb2Link("1")>>), Entry(Elem(<<"a">>), <<Fb2Link("1")>>),
    Entry(Elem(<<"a">>), <<Fb2Link("2")>>), Entry(Elem(<<"Z">>), <<>>),
    Entry(Elem(<<"Z">>), <<CustomLink>>) }

OpdsListingResponses ==
  Failures \cup {Response("ok", Malformed)} \cup
  {Response("ok", Feed(e, FALSE)) :
     e \in SeqsOf(ListingEntries, 0, MaxEntries)}

OpdsAuthorRootResponses ==
  Failures \cup {Response("ok", Malformed)} \cup
  {Response("ok", Feed(e, FALSE)) :
     e \in SeqsOf(FeedBookEntries, 0, MaxEntries) \cup NavRoots}

\* "alphabet" in href
HrefHasAlphabet(href) == \E i \in 1..Len(href.segs) : href.segs[i] = "alphabet"

\* mutant of EntryTarget: only the title of the entry is looked at
RECURSIVE EntryTargetTitleOnly(_, _)
EntryTargetTitleOnly(title_text, links) ==
  IF links = <<>> THEN None
  ELSE IF Contains(title_text, AlphabetKey)
       THEN Head(links).href
       ELSE EntryTargetTitleOnly(title_text, Tail(links))

\* _opds_get_author_books, the inner loop over the links of one entry:
\* the href it assigns to target_url (None: it assigns nothing)
RECURSIVE EntryTarget(_, _)
EntryTarget(title_text, links) ==
  IF links = <<>> THEN None
  ELSE IF Contains(title_text, AlphabetKey) \/ HrefHasAlphabet(Head(links).href)
       THEN Head(links).href
       ELSE EntryTarget(title_text, Tail(links))

\* _opds_get_author_books, "Look for alphabetical link": the outer loop
\* has no break, so the last entry that assigns wins
RECURSIVE FindTarget(_, _)
FindTarget(entries, target_url) ==
  IF entries = <<>> THEN target_url
  ELSE LET title == Head(entries).title
           title_text ==
             IF title # None /\ title.text # NoText THEN lower(title.text)
             ELSE <<>>
           t == EntryTarget(title_text, Head(entries).links)
       IN  FindTarget(Tail(entries), IF t # None THEN t ELSE target_url)

\* "if not target_url.startswith('http'): target_url = urljoin(...)"
ResolveTarget(target_url) ==
  IF target_url.prefix \in {"", "/"}
  THEN urljoin(FLIBUSTA_BASE_URL, target_url) ELSE target_url

----------------------------------------------------------------------------
(* The download resolver: inputs and the filename it derives *)

\* one filename parameter of a Content-Disposition header:
\* filename=<quote>value<quote>, or filename*=UTF-8''value when star;
\* value is the text the server names the file with, before any decoding
Param(star, mark, value) == [star |-> star, quote |-> mark, value |-> value]

\* the text of one parameter as it stands in the header
RenderParam(p) ==
  <<"filename">> \o (IF p.star THEN <<"*", "=", "UTF-8", "'", "'">>
                     ELSE <<"=">>)
  \o (IF p.quote = "" THEN <<>> ELSE <<p.quote>>) \o p.value
  \o (IF p.quote = "" THEN <<>> ELSE <<p.quote>>)

\* the text of a header "attachment; <param>; <param>"
RECURSIVE RenderParams(_)
RenderParams(params) ==
  IF params = <<>> THEN <<>>
  ELSE <<";", " ">> \o RenderParam(Head(params)) \o RenderParams(Tail(params))

\* a Content-Disposition header with these parameters
Disposition(params) == [params |-> params]

\* response.headers.get('Content-Disposition', ''): the header's text, the
\* empty text when the response has no such header (None)
HeaderText(cd) ==
  IF cd = None THEN <<>> ELSE <<"attachment">> \o RenderParams(cd.params)

PlainParams ==
  { Param(FALSE, "\"", <<"book", "%20", "one", ".", "fb2">>),
    Param(FALSE, "", <<"book", ".", "epub">>),
    Param(FALSE, "\"", <<"plain">>),
    Param(FALSE, "\"", <<"100", "%", ".", "fb2">>),
    Param(FALSE, "\"", <<" ", "a", ".", "fb2", " ">>),
    Param(FALSE, "\"", <<"a", ";", "b", ".", "fb2">>),
    Param(FALSE, "\"", <<>>),
    Param(FALSE, "\"", <<" ">>) }

StarParam == Param(TRUE, "", <<"star", "%20", "x", ".", "fb2">>)

\* the headers a download response may carry
Dispositions ==
  {None, Disposition(<<>>), Disposition(<<StarParam>>),
   Disposition(<<StarParam, Param(FALSE, "", <<"book", ".", "epub">>)>>),
   Disposition(<<Param(FALSE, "\"", <<>>),
                 Param(FALSE, "", <<"book", ".", "epub">>)>>)}
  \cup {Disposition(<<p>>) : p \in PlainParams}

\* what self.client.get(url, follow_redirects=True) followed by
\* raise_for_status() meets: an error of the transport, a non-success
\* status, or a response with its header and body
DownloadResponse(kind, cd, content) ==
  [kind |-> kind, cd |-> cd, content |-> content]

DownloadResponses ==
  {DownloadResponse(k, None, "") : k \in {"transport_error", "bad_status"}}
  \cup {DownloadResponse("ok", cd, c) :
          cd \in Dispositions, c \in {"", "bytes"}}

\* the URLs download_book is called with: links the adapters build, a
\* URL with a dotted file name, one that ends with '/', the relative href
\* the feed adapter leaves unresolved, and an href that is no URL at all
\* (its port is not a number)
MalformedBase == "http://flibusta.is:x"
DownloadUrls ==
  { Url(FLIBUSTA_BASE_URL, <<"b", "123", "epub">>),
    Url(FLIBUSTA_BASE_URL, <<"b", "1", "fb2">>),
    Url(FLIBUSTA_BASE_URL, <<"files", "book.fb2">>),
    Url(FLIBUSTA_BASE_URL, <<"b", "1", "">>),
    Url("", <<"b", "2", "custom">>),
    Url(MalformedBase, <<"b", "1", "fb2">>) }

\* the path segments of the model that contain a '.'
DottedSegments == {"book.fb2"}

\* '.' in filename
HasDot(filename) ==
  \E i \in 1..Len(filename) :
     filename[i] = "." \/ filename[i] \in DottedSegments

\* 'filename=' in content_disposition
HasFilenameEq(text) ==
  \E i \in 1..(Len(text) - 1) : text[i] = "filename" /\ text[i + 1] = "="

\* the characters the group [^"';]+ of the pattern stops at
Stops == {"\"", "'", ";"}

\* the longest run of characters outside Stops that starts at position i
RECURSIVE Run(_, _)
Run(text, i) ==
  IF i > Len(text) \/ text[i] \in Stops THEN <<>>
  ELSE <<text[i]>> \o Run(text, i + 1)

\* the pattern filename[*]?=["']?([^"';]+) matched at position i: its
\* group, or the empty text when it does not match there (a group that
\* matched is never empty)
MatchAt(text, i) ==
  LET eq == IF i < Len(text) /\ text[i + 1] = "*" THEN i + 2 ELSE i + 1
      quoted == eq + 1 <= Len(text) /\ text[eq + 1] \in {"\"", "'"}
      start == IF quoted THEN eq + 2 ELSE eq + 1
  IN  IF text[i] = "filename" /\ eq <= Len(text) /\ text[eq] = "="
      THEN Run(text, start) ELSE <<>>

\* re.search: the group of the leftmost match, the empty text without one
RECURSIVE Search(_, _)
Search(text, i) ==
  IF i > Len(text) THEN <<>>
  ELSE IF MatchAt(text, i) # <<>> THEN MatchAt(text, i)
       ELSE Search(text, i + 1)

\* urllib.parse.unquote on one token: an escape %XX becomes its character,
\* a lone '%' stays
Unquote(tok) == IF tok = "%20" THEN " " ELSE tok

\* '%' in filename
HasPercent(filename) ==
  \E i \in 1..Len(filename) : filename[i] \in {"%", "%20"}

\* the value download_book returns on success: (response.content, filename)
Downloaded(content, filename) == [content |-> content, filename |-> filename]

\* mutant of download_filename: the last path segment is used whether or
\* not it contains a '.'
FilenameNoDotCheck(u, cd) ==
  LET text == HeaderText(cd)
      group == IF HasFilenameEq(text) THEN Search(text, 1) ELSE <<>>
      stripped == Strip(group)
      from_header ==
        IF HasPercent(stripped)
        THEN [i \in 1..Len(stripped) |-> Unquote(stripped[i])] ELSE stripped
      last == u.segs[Len(u.segs)]
  IN  IF from_header # <<>> THEN from_header
      ELSE IF last # "" THEN <<last>> ELSE <<"book">>

\* download_book, lines 547-561: the filename from the header, else from
\* the URL, else the placeholder
download_filename(u, cd) ==
  LET text == HeaderText(cd)
      group == IF HasFilenameEq(text) THEN Search(text, 1) ELSE <<>>
      stripped == Strip(group)
      from_header ==
        IF HasPercent(stripped)
        THEN [i \in 1..Len(stripped) |-> Unquote(stripped[i])] ELSE stripped
      last == u.segs[Len(u.segs)]
      from_url == IF last = "" THEN <<>> ELSE <<last>>
  IN  IF from_header # <<>> THEN from_header
      ELSE IF HasDot(from_url) THEN from_url ELSE <<"book">>

\* what self.client.get raises before any request is sent: InvalidURL for
\* a text that is no URL, UnsupportedProtocol for a URL without a scheme,
\* "" when the request goes out
ClientGetRaises(u) ==
  CASE u.prefix = MalformedBase -> "InvalidURL"
    [] u.prefix = "" -> "UnsupportedProtocol"
    [] OTHER -> ""

\* the exceptions "except httpx.HTTPError" catches
DownloadCaught == {"UnsupportedProtocol", "ConnectError", "HTTPStatusError"}

DownloadGuarded(exc) == IF exc \in DownloadCaught THEN None ELSE Raised(exc)

\* FlibustaClient.download_book, given the response to its request
download_book(u, resp) ==
  IF ClientGetRaises(u) # "" THEN DownloadGuarded(ClientGetRaises(u))
  ELSE IF resp.kind = "transport_error" THEN DownloadGuarded("ConnectError")
  ELSE IF resp.kind = "bad_status" THEN DownloadGuarded("HTTPStatusError")
  ELSE Downloaded(resp.content, download_filename(u, resp.cd))

----------------------------------------------------------------------------
(* The orchestrator: one operation at a time, one step per network event *)

VARIABLES
  pc,            \* where the running operation is
  op,            \* the public method that was called
  args,          \* its arguments
  url,           \* the URL of the request being prepared or in flight
  log,           \* requests, responses and status calls of this operation
  html_content,  \* the page the HTML adapter built its result from
  xml_content,   \* the document the feed adapter built its result from
  http_result,   \* what the HTML adapter returned
  opds_result,   \* what the feed adapter returned or raised
  result         \* what the operation returned

vars == <<pc, op, args, url, log, html_content, xml_content, http_result,
          opds_result, result>>

\* the presentation layer (bot.py) serves the conversation of one user
VARIABLES
  state,      \* the state ConversationHandler keeps for the conversation
  user_data,  \* context.user_data: the keys that are set, with their values
  screen,     \* the message of the bot the user acts on, with its keyboard
  outcome,    \* the handler that ran last and what the engine gave it
  status_edit \* the edit status_callback scheduled is still on its way

botvars == <<state, user_data, screen, outcome, status_edit>>

\* no conversation has started: only the entry point /start is served
NoConversation == "none"

\* an empty dict
EmptyDict == [k \in {} |-> None]

\* no message of the bot is in the chat
NoScreen == [view |-> "none", rows |-> <<>>]

\* no handler has run
NoOutcome == [handler |-> "none"]

\* the presentation layer before the first update
BotInit ==
  /\ state = NoConversation
  /\ user_data = EmptyDict
  /\ screen = NoScreen
  /\ outcome = NoOutcome
  /\ status_edit = FALSE

\* not yet returned
Pending == [pending |-> TRUE]

Queries == {<<"a", " ", "b">>}
Pages == 0..MaxPage

\* the text the orchestrator passes to status_callback
FallbackText == "fallback"

OPDS_BASE_URL == Url(FLIBUSTA_BASE_URL, <<"opds">>)

\* f"{FLIBUSTA_BASE_URL}/booksearch?ask={encoded_query}&page={page}"
HttpBookSearchUrl(query, page) ==
  [prefix |-> FLIBUSTA_BASE_URL, segs |-> <<"booksearch">>,
   ask |-> quote(query), page |-> page]

\* f"{FLIBUSTA_BASE_URL}/booksearch?ask={encoded_query}"
HttpAuthorSearchUrl(query) ==
  [prefix |-> FLIBUSTA_BASE_URL, segs |-> <<"booksearch">>,
   ask |-> quote(query)]

\* f"{FLIBUSTA_BASE_URL}/a/{author_id}/alphabet"
HttpAlphabetUrl(author_id) ==
  Url(FLIBUSTA_BASE_URL, <<"a", author_id, "alphabet">>)

\* f"{FLIBUSTA_BASE_URL}/a/{author_id}"
HttpAuthorUrl(author_id) == Url(FLIBUSTA_BASE_URL, <<"a", author_id>>)

\* f"{OPDS_BASE_URL}/opensearch?searchTerm=...&searchType=...&pageNumber=..."
OpdsSearchUrl(query, searchType, page) ==
  [prefix |-> OPDS_BASE_URL.prefix,
   segs |-> OPDS_BASE_URL.segs \o <<"opensearch">>,
   searchTerm |-> quote(query), searchType |-> searchType,
   pageNumber |-> page]

\* f"{OPDS_BASE_URL}/author/{author_id}"
OpdsAuthorUrl(author_id) ==
  Url(OPDS_BASE_URL.prefix, OPDS_BASE_URL.segs \o <<"author", author_id>>)

\* the first request of the HTML adapter of each operation
FirstHttpUrl(o, a) ==
  CASE o = "search_books" -> HttpBookSearchUrl(a.query, a.page)
    [] o = "search_authors" -> HttpAuthorSearchUrl(a.query)
    [] o = "get_author_books" -> HttpAlphabetUrl(a.author_id)

\* the first request of the feed adapter of each operation
FirstOpdsUrl(o, a) ==
  CASE o = "search_books" -> OpdsSearchUrl(a.query, "books", a.page)
    [] o = "search_authors" -> OpdsSearchUrl(a.query, "authors", a.page)
    [] o = "get_author_books" -> OpdsAuthorUrl(a.author_id)

Request(src, u) == [ev |-> "request", src |-> src, url |-> u]
Reply(src) == [ev |-> "response", src |-> src]

\* a response as _http_get_author_books sees it: whether the request got
\* a success status, and whether "not html_content" holds of its text
ReplyOf(src, resp) ==
  [ev |-> "response", src |-> src, success |-> resp.kind = "ok",
   empty |-> Falsy(http_request(resp))]
StatusCall(text, raised) ==
  [ev |-> "status", src |-> "sink", text |-> text, raised |-> raised]

IsRaised(r) == "raise" \in DOMAIN r

Init ==
  /\ pc = "idle"
  /\ op = "none"
  /\ args = None
  /\ url = None
  /\ log = <<>>
  /\ html_content = None
  /\ xml_content = None
  /\ http_result = Pending
  /\ opds_result = Pending
  /\ result = Pending
  /\ BotInit

\* a caller enters one of the three public methods
Call(o, a) ==
  /\ pc = "idle"
  /\ pc' = "http_send"
  /\ op' = o
  /\ args' = a
  /\ url' = FirstHttpUrl(o, a)
  /\ UNCHANGED <<log, html_content, xml_content, http_result, opds_result,
                 result>>
  /\ UNCHANGED botvars

CallSearchBooks ==
  \E q \in Queries, p \in Pages, cb \in BOOLEAN :
     Call("search_books", [query |-> q, page |-> p, status_callback |-> cb])

CallSearchAuthors ==
  \E q \in Queries, p \in Pages, cb \in BOOLEAN :
     Call("search_authors", [query |-> q, page |-> p, status_callback |-> cb])

CallGetAuthorBooks ==
  \E id \in {"7"}, p \in {0}, cb \in BOOLEAN :
     Call("get_author_books",
          [author_id |-> id, page |-> p, status_callback |-> cb])

\* _http_request: self.client.get(url) is issued
HttpSend ==
  /\ pc = "http_send"
  /\ pc' = "http_wait"
  /\ log' = Append(log, Request("http", url))
  /\ UNCHANGED <<op, args, url, html_content, xml_content, http_result,
                 opds_result, result>>
  /\ UNCHANGED botvars

\* mutant of PcAfterHttp: the status callback is never called
PcAfterHttpNoStatus(r, status_callback) ==
  IF Productive(r) THEN "done" ELSE "opds_send"

\* where the orchestrator goes with the HTML adapter's result:
\* "if result and result.items: return result", else the status call when
\* a callback was given, else the feed adapter
PcAfterHttp(r, status_callback) ==
  IF Productive(r) THEN "done"
  ELSE IF status_callback THEN "status" ELSE "opds_send"

\* the HTML adapter returns r, built from the page content; reply is the
\* entry the response leaves in the log
HttpReturnsLogged(r, content, reply) ==
  /\ http_result' = r
  /\ pc' = PcAfterHttp(r, args.status_callback)
  /\ log' = Append(log, reply)
  /\ IF Productive(r)
     THEN /\ result' = r
          /\ html_content' = content
          /\ url' = None
     ELSE /\ result' = result
          /\ html_content' = None
          /\ url' = FirstOpdsUrl(op, args)
  /\ UNCHANGED <<op, args, xml_content, opds_result>>
  /\ UNCHANGED botvars

HttpReturns(r, content) == HttpReturnsLogged(r, content, Reply("http"))

\* a response as _http_search_authors sees it: whether author_section_match
\* finds the heading with its list in the text
ReplyWithHeading(src, content) ==
  [ev |-> "response", src |-> src,
   heading |-> ~Falsy(content) /\ content.heading]

\* a response as _http_search_books sees it: the numbers N for which its
\* text holds 'page=N' (none when there is no text)
ReplyWithMarks(src, content) ==
  [ev |-> "response", src |-> src,
   marks |-> IF Falsy(content) THEN {} ELSE content.marks]

HttpSearchBooksRecv ==
  /\ pc = "http_wait"
  /\ op = "search_books"
  /\ \E resp \in HttpBookResponses :
        HttpReturnsLogged(http_search_books(resp, args.page),
                          http_request(resp),
                          ReplyWithMarks("http", http_request(resp)))

HttpSearchAuthorsRecv ==
  /\ pc = "http_wait"
  /\ op = "search_authors"
  /\ \E resp \in HttpAuthorResponses :
        HttpReturnsLogged(http_search_authors(resp), http_request(resp),
                          ReplyWithHeading("http", http_request(resp)))

\* mutant of RetryPlain: every failed request is followed by another
RetryPlainAlways(content, u, author_id) == Falsy(content)

\* mutant of RetryPlain: the plain page is tried only after an error, not
\* after a success response with an empty body
RetryPlainOnError(content, u, author_id) ==
  content = None /\ u = HttpAlphabetUrl(author_id)

\* _http_get_author_books: the plain page is tried when the request that
\* just failed was the one for the /alphabet page
RetryPlain(content, u, author_id) ==
  Falsy(content) /\ u = HttpAlphabetUrl(author_id)

HttpGetAuthorBooksRecv ==
  /\ pc = "http_wait"
  /\ op = "get_author_books"
  /\ \E resp \in HttpAuthorBooksResponses :
        LET content == http_request(resp)
        IN  IF RetryPlain(content, url, args.author_id)
            THEN /\ pc' = "http_send"
                 /\ url' = HttpAuthorUrl(args.author_id)
                 /\ log' = Append(log, ReplyOf("http", resp))
                 /\ UNCHANGED <<op, args, html_content, xml_content,
                                http_result, opds_result, result>>
            ELSE IF Falsy(content)
            THEN HttpReturnsLogged(None, content, ReplyOf("http", resp))
            ELSE HttpReturnsLogged(
                   http_get_author_books(content, args.author_id),
                   content, ReplyOf("http", resp))
  /\ UNCHANGED botvars

\* status_callback(...) inside try/except: what the callback raises is
\* logged and dropped
\* mutant of PcAfterStatus: an exception of the callback ends the operation
PcAfterStatusAborts(raised) == IF raised THEN "raised" ELSE "opds_send"

\* "except Exception as e: logger.error(...)": the feed adapter is next
\* whether or not the callback raised
PcAfterStatus(raised) == "opds_send"

StatusCallback ==
  /\ pc = "status"
  /\ \E raised \in BOOLEAN :
        /\ pc' = PcAfterStatus(raised)
        /\ log' = Append(log, StatusCall(FallbackText, raised))
  /\ UNCHANGED <<op, args, url, html_content, xml_content, http_result,
                 opds_result, result>>
  /\ UNCHANGED botvars

\* _opds_request: self.client.get(url) is issued
OpdsSend ==
  /\ pc = "opds_send"
  /\ pc' = "opds_wait"
  /\ log' = Append(log, Request("opds", url))
  /\ UNCHANGED <<op, args, url, html_content, xml_content, http_result,
                 opds_result, result>>
  /\ UNCHANGED botvars

\* mutant of PcAfterOpds: an absent feed result sends the operation back
\* to the HTML source
PcAfterOpdsRetryHtml(r) ==
  IF IsRaised(r) THEN "raised" ELSE IF r = None THEN "http_send" ELSE "done"

\* mutant of FallbackReturn: the two results are merged
FallbackReturnMerged(http_r, opds_r) ==
  IF http_r = None \/ opds_r = None THEN opds_r
  ELSE SearchResult(http_r.items \o opds_r.items,
                    http_r.has_more \/ opds_r.has_more, opds_r.source)

\* where the operation ends with the feed adapter's outcome
PcAfterOpds(r) == IF IsRaised(r) THEN "raised" ELSE "done"

\* "result = self._opds_...(...)" and "return result": what the caller gets
\* after a fallback
FallbackReturn(http_r, opds_r) == opds_r

\* the feed adapter returns r (or raises) after reading content
OpdsReturns(r, content) ==
  /\ opds_result' = r
  /\ xml_content' = content
  /\ pc' = PcAfterOpds(r)
  /\ log' = Append(log, Reply("opds"))
  /\ url' = None
  /\ result' = IF IsRaised(r) THEN result ELSE FallbackReturn(http_result, r)
  /\ UNCHANGED <<op, args, html_content, http_result>>
  /\ UNCHANGED botvars

OpdsSearchBooksRecv ==
  /\ pc = "opds_wait"
  /\ op = "search_books"
  /\ \E resp \in OpdsBookResponses :
        OpdsReturns(opds_search_books(resp, args.page), opds_request(resp))

OpdsSearchAuthorsRecv ==
  /\ pc = "opds_wait"
  /\ op = "search_authors"
  /\ \E resp \in OpdsAuthorResponses :
        OpdsReturns(opds_search_authors(resp, args.page), opds_request(resp))

\* _opds_get_author_books after its first request: the author's root
\* document either names an alphabetical listing, fetched next, or is the
\* document the books are parsed from
OpdsAuthorRootRecv ==
  /\ pc = "opds_wait"
  /\ op = "get_author_books"
  /\ url = OpdsAuthorUrl(args.author_id)
  /\ \E resp \in OpdsAuthorRootResponses :
        LET content == opds_request(resp)
        IN  IF Falsy(content) THEN OpdsReturns(None, content)
            ELSE IF content = Malformed
            THEN OpdsReturns(Guarded("ParseError"), content)
            ELSE IF FindTarget(content.entries, None) # None
            THEN /\ pc' = "opds_send"
                 /\ url' = ResolveTarget(FindTarget(content.entries, None))
                 /\ log' = Append(log, Reply("opds"))
                 /\ xml_content' = content
                 /\ UNCHANGED <<op, args, html_content, http_result,
                                opds_result, result>>
            ELSE OpdsReturns(OpdsBookResult(content, FALSE), content)
  /\ UNCHANGED botvars

\* _opds_get_author_books after the request for the alphabetical listing
OpdsAuthorListingRecv ==
  /\ pc = "opds_wait"
  /\ op = "get_author_books"
  /\ url # OpdsAuthorUrl(args.author_id)
  /\ \E resp \in OpdsListingResponses :
        LET content == opds_request(resp)
        IN  IF Falsy(content) THEN OpdsReturns(None, content)
            ELSE IF content = Malformed
            THEN OpdsReturns(Guarded("ParseError"), content)
            ELSE OpdsReturns(OpdsBookResult(content, FALSE), content)

\* a caller enters download_book
CallDownloadBook ==
  /\ pc = "idle"
  /\ \E u \in DownloadUrls :
        /\ args' = [url |-> u]
        /\ url' = u
  /\ pc' = "dl_send"
  /\ op' = "download_book"
  /\ UNCHANGED <<log, html_content, xml_content, http_result, opds_result,
                 result>>
  /\ UNCHANGED botvars

\* download_book: self.client.get(url) either raises before it sends
\* anything, and the function ends, or issues the request
DownloadSend ==
  /\ pc = "dl_send"
  /\ IF ClientGetRaises(url) # ""
     THEN LET r == download_book(url, None)
          IN  /\ pc' = IF IsRaised(r) THEN "dl_raised" ELSE "dl_done"
              /\ result' = IF IsRaised(r) THEN result ELSE r
              /\ UNCHANGED log
     ELSE /\ pc' = "dl_wait"
          /\ log' = Append(log, Request("download", url))
          /\ UNCHANGED result
  /\ UNCHANGED <<op, args, url, html_content, xml_content, http_result,
                 opds_result>>
  /\ UNCHANGED botvars

\* download_book from the response of its request to its return
DownloadRecv ==
  /\ pc = "dl_wait"
  /\ \E resp \in DownloadResponses :
        /\ log' = Append(log, [ev |-> "response", src |-> "download",
                                 response |-> resp])
        /\ result' = download_book(url, resp)
  /\ pc' = "dl_done"
  /\ UNCHANGED <<op, args, url, html_content, xml_content, http_result,
                 opds_result>>
  /\ UNCHANGED botvars

\* what self.client.get(..., timeout=15) of check_connection ends in: an
\* exception, or a response with its status code
ProbeOutcomes ==
  {[raised |-> TRUE]} \cup {[status_code |-> c] : c \in {200, 204, 503}}

\* mutant of ProbeSucceeded: every response counts, whatever its status
ProbeSucceededAnyStatus(o) == "status_code" \in DOMAIN o

\* "if response.status_code == 200", not reached when client.get raised
ProbeSucceeded(o) == "status_code" \in DOMAIN o /\ o.status_code = 200

\* the tuple check_connection returns: success, and the source its message
\* names
CheckResult(success, source) == [success |-> success, source |-> source]

\* the source a probe of check_connection goes to
ProbeSource(u) == IF u = OPDS_BASE_URL THEN "opds" ELSE "http"

\* the events of check_connection: its requests do not go through
\* _http_request or _opds_request
Probe(src, u) == [ev |-> "probe", src |-> src, url |-> u]
ProbeEnd(src, o) == [ev |-> "probe_end", src |-> src, outcome |-> o]

\* a caller enters check_connection: the probe of the HTML source is first
CallCheckConnection ==
  /\ pc = "idle"
  /\ pc' = "probe_send"
  /\ op' = "check_connection"
  /\ url' = Url(FLIBUSTA_BASE_URL, <<>>)
  /\ UNCHANGED <<args, log, html_content, xml_content, http_result,
                 opds_result, result>>
  /\ UNCHANGED botvars

\* check_connection: self.client.get(...) of a probe is issued
ProbeSend ==
  /\ pc = "probe_send"
  /\ pc' = "probe_wait"
  /\ log' = Append(log, Probe(ProbeSource(url), url))
  /\ UNCHANGED <<op, args, url, html_content, xml_content, http_result,
                 opds_result, result>>
  /\ UNCHANGED botvars

\* check_connection: a probe ends; status 200 returns success, anything
\* else (the exception is logged and dropped) leads to the probe of the
\* feed source or, after that one, to the failure message
ProbeRecv ==
  /\ pc = "probe_wait"
  /\ \E o \in ProbeOutcomes :
        /\ log' = Append(log, ProbeEnd(ProbeSource(url), o))
        /\ IF ProbeSucceeded(o)
           THEN /\ pc' = "probe_done"
                /\ result' = CheckResult(TRUE, ProbeSource(url))
                /\ url' = None
           ELSE IF ProbeSource(url) = "http"
           THEN /\ pc' = "probe_send"
                /\ url' = OPDS_BASE_URL
                /\ UNCHANGED result
           ELSE /\ pc' = "probe_done"
                /\ result' = CheckResult(FALSE, "none")
                /\ url' = None
  /\ UNCHANGED <<op, args, html_content, xml_content, http_result,
                 opds_result>>
  /\ UNCHANGED botvars

\* the operation has returned or raised; the client is ready for the next
Return ==
  /\ pc \in {"done", "raised", "dl_done", "dl_raised", "probe_done"}
  /\ pc' = "idle"
  /\ op' = "none"
  /\ args' = None
  /\ url' = None
  /\ log' = <<>>
  /\ html_content' = None
  /\ xml_content' = None
  /\ http_result' = Pending
  /\ opds_result' = Pending
  /\ result' = Pending
  /\ UNCHANGED botvars

Next ==
  \/ CallSearchBooks
  \/ CallSearchAuthors
  \/ CallGetAuthorBooks
  \/ HttpSend
  \/ HttpSearchBooksRecv
  \/ HttpSearchAuthorsRecv
  \/ HttpGetAuthorBooksRecv
  \/ StatusCallback
  \/ OpdsSend
  \/ OpdsSearchBooksRecv
  \/ OpdsSearchAuthorsRecv
  \/ OpdsAuthorRootRecv
  \/ OpdsAuthorListingRecv
  \/ CallDownloadBook
  \/ DownloadSend
  \/ DownloadRecv
  \/ CallCheckConnection
  \/ ProbeSend
  \/ ProbeRecv
  \/ Return

Spec == Init /\ [][Next]_<<vars, botvars>>

----------------------------------------------------------------------------
(* The presentation layer: keyboards *)

\* config.ITEMS_PER_PAGE
ITEMS_PER_PAGE == 5

\* the longest result list the engine hands to the presentation layer
MaxItems == 11

Min(a, b) == IF a < b THEN a ELSE b

\* dict.get(k, default) and d[k] = v
Get(d, k, default) == IF k \in DOMAIN d THEN d[k] ELSE default
Put(d, k, v) == [x \in DOMAIN d \cup {k} |-> IF x = k THEN v ELSE d[x]]

\* callback data, by the text before its first ':' (the records differ in
\* their fields, as the texts differ in their first part):
\* "page:<prefix>:<n>", "<prefix>:<id>", "dl:<id>:<format>", "back:<to>",
\* "menu:<what>" and "noop"
PageData(prefix, n) == [page |-> prefix, n |-> n]
ItemData(prefix, id) == [item |-> prefix, id |-> id]
DlData(id, format) == [dl |-> id, format |-> format]
BackData(to) == [back |-> to]
MenuData(what) == [menu |-> what]
NoopData == [noop |-> TRUE]

\* a message of the bot: what it says and the rows of its inline keyboard
Message(view, rows) == [view |-> view, rows |-> rows]

\* the callback data of the buttons of a keyboard
RECURSIVE RowsData(_)
RowsData(rows) ==
  IF rows = <<>> THEN {}
  ELSE {Head(rows)[i] : i \in 1..Len(Head(rows))} \cup RowsData(Tail(rows))

\* create_main_menu
create_main_menu ==
  << <<MenuData("search_book")>>, <<MenuData("search_author")>> >>

\* the keyboard of the two prompts of menu_handler
CancelKeyboard == << <<BackData("main")>> >>

\* books[start_idx:end_idx]
Slice(items, start_idx, end_idx) ==
  IF start_idx >= end_idx THEN <<>>
  ELSE SubSeq(items, start_idx + 1, end_idx)

\* (total_items + ITEMS_PER_PAGE - 1) // ITEMS_PER_PAGE
TotalPages(total_items) ==
  (total_items + ITEMS_PER_PAGE - 1) \div ITEMS_PER_PAGE

\* mutant of NavRow: the next button is offered on the last page too
NavRowNextAlways(page, total_items, callback_prefix) ==
  IF TotalPages(total_items) > 1
  THEN << (IF page > 0 THEN <<PageData(callback_prefix, page - 1)>>
           ELSE <<>>)
          \o <<NoopData>>
          \o <<PageData(callback_prefix, page + 1)>> >>
  ELSE <<>>

\* the pagination row of both list keyboards: no row, or the row with the
\* buttons previous (page > 0), indicator, next (page < total_pages - 1)
NavRow(page, total_items, callback_prefix) ==
  IF TotalPages(total_items) > 1
  THEN << (IF page > 0 THEN <<PageData(callback_prefix, page - 1)>>
           ELSE <<>>)
          \o <<NoopData>>
          \o (IF page < TotalPages(total_items) - 1
              THEN <<PageData(callback_prefix, page + 1)>> ELSE <<>>) >>
  ELSE <<>>

\* create_book_list_keyboard
create_book_list_keyboard(books, page, total_items, callback_prefix) ==
  LET start_idx == page * ITEMS_PER_PAGE
      end_idx == Min(start_idx + ITEMS_PER_PAGE, Len(books))
      page_books == Slice(books, start_idx, end_idx)
  IN  [i \in 1..Len(page_books) |->
         <<ItemData(callback_prefix, page_books[i].id)>>]
      \o NavRow(page, total_items, callback_prefix)
      \o << <<BackData("main")>> >>

\* create_author_list_keyboard
create_author_list_keyboard(authors, page, total_items) ==
  LET start_idx == page * ITEMS_PER_PAGE
      end_idx == Min(start_idx + ITEMS_PER_PAGE, Len(authors))
      page_authors == Slice(authors, start_idx, end_idx)
  IN  [i \in 1..Len(page_authors) |->
         <<ItemData("author", page_authors[i].id)>>]
      \o NavRow(page, total_items, "author")
      \o << <<BackData("main")>> >>

\* create_book_details_keyboard, the download buttons: the first six
\* links, three to a row
RECURSIVE FormatRows(_, _)
FormatRows(book_id, links) ==
  IF links = <<>> THEN <<>>
  ELSE LET n == Min(3, Len(links))
       IN  << [i \in 1..n |-> DlData(book_id, links[i].format)] >>
           \o FormatRows(book_id, SubSeq(links, n + 1, Len(links)))

\* create_book_details_keyboard
create_book_details_keyboard(book, back_state) ==
  FormatRows(book.id, SubSeq(book.download_links, 1,
                             Min(6, Len(book.download_links))))
  \o << <<BackData(back_state)>>, <<BackData("main")>> >>

----------------------------------------------------------------------------
(* The presentation layer: what the engine hands to the handlers *)

\* the i-th item of a list of the engine: lists are sorted by title or
\* name, and these names ascend with i
BotName(i) == [j \in 1..i |-> "a"]
BotBook(i) == Book(ToString(i), BotName(i), <<>>, SynthLinks(ToString(i)))
BotAuthor(i) == Author(ToString(i), BotName(i), Url("/", <<"a", ToString(i)>>))

\* a book as the feed adapter builds it: a title with punctuation, a link
\* to a file with a dotted name, a link whose href stayed relative and a
\* link whose href is no URL
BotFeedBook ==
  Book("1", <<"Z", "!">>, <<>>,
       << DownloadLink(Url(FLIBUSTA_BASE_URL, <<"files", "book.fb2">>),
                       "fb2", <<"application", "fb2+zip">>),
          DownloadLink(Url("", <<"b", "2", "custom">>),
                       "x-custom", <<"application", "x-custom">>),
          DownloadLink(Url(MalformedBase, <<"b", "1", "fb2">>),
                       "djvu", <<"image", "vnd.djvu">>) >>)

\* lengths of the lists: one item, a full page, a page and one item, and
\* the longest list
ListSizes == {1, ITEMS_PER_PAGE, ITEMS_PER_PAGE + 1, MaxItems}

\* what flibusta.search_books and flibusta.get_author_books give their
\* caller: None, an empty result of the feed, a list, or an exception
\* what the feed adapter makes of a document with two entries whose
\* links carry the same book id
FeedTwins ==
  opds_search_books(
    Response("ok", Feed(<< Entry(Elem(<<"Z">>), <<Fb2Link("1")>>),
                           Entry(Elem(<<"a">>), <<Fb2Link("1")>>) >>,
                        FALSE)),
    0)

BookOutcomes ==
  {None, SearchResult(<<>>, FALSE, "opds"), Raised("AttributeError"),
   SearchResult(<<BotFeedBook>>, FALSE, "opds"), FeedTwins}
  \cup {SearchResult([i \in 1..n |-> BotBook(i)], FALSE, "http") :
          n \in ListSizes}

\* what flibusta.search_authors gives its caller
AuthorOutcomes ==
  {None, SearchResult(<<>>, FALSE, "opds")}
  \cup {SearchResult([i \in 1..n |-> BotAuthor(i)], FALSE, "http") :
          n \in ListSizes}

\* "not result or not result.items"
NothingFound(r) == r = None \/ r.items = <<>>

\* next((x for x in items if x.id == id), None)
RECURSIVE FindById(_, _)
FindById(items, id) ==
  IF items = <<>> THEN None
  ELSE IF Head(items).id = id THEN Head(items)
       ELSE FindById(Tail(items), id)

----------------------------------------------------------------------------
(* The presentation layer: handlers *)

\* a handler ends: the state it returns, the session and the message it
\* leaves, what it ran on, and whether an edit that its status_callback
\* scheduled on the event loop has not been answered yet
Settled(st, ud, sc, out, on_its_way) ==
  /\ state' = st
  /\ user_data' = ud
  /\ screen' = sc
  /\ outcome' = out
  /\ status_edit' = on_its_way
  /\ UNCHANGED vars

\* a handler ends with no edit of a status_callback on its way (one that
\* an earlier handler left is taken to be answered before the next update
\* of the user is handled)
Handled(st, ud, sc, out) == Settled(st, ud, sc, out, FALSE)

\* a handler raises: ConversationHandler keeps the state, error_handler
\* sends its message with the main menu
HandlerRaised(ud, out) ==
  Handled(state, ud, Message("error", create_main_menu), out)

Ran(handler) == [handler |-> handler]
RanOn(handler, r) == [handler |-> handler, result |-> r]

\* start_command: the entry point, and a fallback of every state
StartCommand ==
  /\ state' = "MAIN_MENU"
  /\ user_data' = EmptyDict
  /\ screen' = Message("welcome", create_main_menu)
  /\ outcome' = Ran("start_command")
  /\ status_edit' = FALSE
  /\ UNCHANGED vars

\* cancel_command: a fallback of every state
CancelCommand ==
  /\ state # NoConversation
  /\ Handled("MAIN_MENU", EmptyDict, Message("menu", create_main_menu),
             Ran("cancel_command"))

\* a handler ran on the data of a button
RanOnData(handler, data) == [handler |-> handler, data |-> data]

\* mutant of BackToMain: the session data is kept
BackToMainKeepsSession(handler) ==
  Handled("MAIN_MENU", user_data, Message("menu", create_main_menu),
          RanOnData(handler, BackData("main")))

\* "back:main" in every callback handler
BackToMain(handler) ==
  Handled("MAIN_MENU", EmptyDict, Message("menu", create_main_menu),
          RanOnData(handler, BackData("main")))

\* the user presses a button of the message: its callback data
Pressed == RowsData(screen.rows)

\* menu_handler on callback data
menu_handler_on(data, message) ==
  IF data = MenuData("search_book")
  THEN Handled("AWAITING_BOOK_QUERY", user_data,
               Message("ask_book", CancelKeyboard), Ran("menu_handler"))
  ELSE IF data = MenuData("search_author")
  THEN Handled("AWAITING_AUTHOR_QUERY", user_data,
               Message("ask_author", CancelKeyboard), Ran("menu_handler"))
  ELSE IF data = BackData("main") THEN BackToMain("menu_handler")
  ELSE IF data = NoopData
  THEN Handled(message.view, user_data, message, Ran("menu_handler"))
  ELSE Handled("MAIN_MENU", user_data, message, Ran("menu_handler"))

\* menu_handler on the data of a button of the message on the screen
menu_handler(data) == menu_handler_on(data, screen)

MenuHandler ==
  /\ state \in {"MAIN_MENU", "AWAITING_BOOK_QUERY", "AWAITING_AUTHOR_QUERY"}
  /\ \E data \in Pressed : menu_handler(data)

\* mutant of SearchFinished: an empty result is stored and shown as a list
SearchFinishedAlwaysList(handler, ud, r, key, found, rows, view) ==
  IF IsRaised(r) THEN HandlerRaised(ud, RanOn(handler, r))
  ELSE IF r = None
  THEN Handled("MAIN_MENU", ud, Message("nothing_found", create_main_menu),
               RanOn(handler, r))
  ELSE Handled(found, Put(ud, key, r.items), Message(view, rows),
               RanOn(handler, r))

\* the tail the three searching handlers share, from the return of the
\* engine on: "if not result or not result.items: ... return MAIN_MENU",
\* else the list is stored under key and shown
SearchFinished(handler, ud, r, key, found, rows, view) ==
  IF IsRaised(r) THEN HandlerRaised(ud, RanOn(handler, r))
  ELSE IF NothingFound(r)
  THEN Handled("MAIN_MENU", ud, Message("nothing_found", create_main_menu),
               RanOn(handler, r))
  ELSE Handled(found, Put(ud, key, r.items), Message(view, rows),
               RanOn(handler, r))

\* the engine called status_callback: it does so when, and only when, the
\* HTML adapter's result was not productive, and what it returns then is
\* what the feed adapter gave
StatusCalled(r) == IF r = None THEN TRUE ELSE r.source = "opds"

\* a searching handler whose status_callback was called returns while the
\* edit that callback scheduled (run_coroutine_threadsafe, not awaited by
\* anyone) is still on its way: msg shows the final text
SearchFinishedStatusOnItsWay(handler, ud, r, key, found, rows, view) ==
  IF NothingFound(r)
  THEN Settled("MAIN_MENU", ud, Message("nothing_found", create_main_menu),
               RanOn(handler, r), TRUE)
  ELSE Settled(found, Put(ud, key, r.items), Message(view, rows),
               RanOn(handler, r), TRUE)

\* book_search_handler on a text message
BookSearchHandler ==
  /\ state = "AWAITING_BOOK_QUERY"
  /\ \E query_text \in Queries, r \in BookOutcomes :
        SearchFinished(
          "book_search_handler",
          Put(Put(user_data, "book_query", query_text), "book_page", 0),
          r, "book_results", "SHOWING_BOOK_RESULTS",
          IF ~IsRaised(r) /\ ~NothingFound(r)
          THEN create_book_list_keyboard(r.items, 0, Len(r.items), "book")
          ELSE <<>>,
          "book_list")

\* author_search_handler on a text message
AuthorSearchHandler ==
  /\ state = "AWAITING_AUTHOR_QUERY"
  /\ \E query_text \in Queries, r \in AuthorOutcomes :
        SearchFinished(
          "author_search_handler",
          Put(Put(user_data, "author_query", query_text), "author_page", 0),
          r, "author_results", "SHOWING_AUTHOR_RESULTS",
          IF ~IsRaised(r) /\ ~NothingFound(r)
          THEN create_author_list_keyboard(r.items, 0, Len(r.items))
          ELSE <<>>,
          "author_list")

\* book_search_handler on a text message, the status edit outliving it
BookSearchStatusOnItsWay ==
  /\ state = "AWAITING_BOOK_QUERY"
  /\ \E query_text \in Queries,
        r \in {o \in BookOutcomes : ~IsRaised(o)} :
        /\ StatusCalled(r)
        /\ SearchFinishedStatusOnItsWay(
             "book_search_handler",
             Put(Put(user_data, "book_query", query_text), "book_page", 0),
             r, "book_results", "SHOWING_BOOK_RESULTS",
             IF ~NothingFound(r)
             THEN create_book_list_keyboard(r.items, 0, Len(r.items), "book")
             ELSE <<>>,
             "book_list")

\* author_search_handler on a text message, the status edit outliving it
AuthorSearchStatusOnItsWay ==
  /\ state = "AWAITING_AUTHOR_QUERY"
  /\ \E query_text \in Queries, r \in AuthorOutcomes :
        /\ StatusCalled(r)
        /\ SearchFinishedStatusOnItsWay(
             "author_search_handler",
             Put(Put(user_data, "author_query", query_text), "author_page", 0),
             r, "author_results", "SHOWING_AUTHOR_RESULTS",
             IF ~NothingFound(r)
             THEN create_author_list_keyboard(r.items, 0, Len(r.items))
             ELSE <<>>,
             "author_list")

\* _update of status_callback: Telegram applies msg.edit_text(text), which
\* carries no keyboard
StatusEditLands ==
  /\ status_edit
  /\ screen' = Message("status", <<>>)
  /\ status_edit' = FALSE
  /\ UNCHANGED <<state, user_data, outcome>>
  /\ UNCHANGED vars

\* _update of status_callback: "except Exception", the edit fails and is
\* logged
StatusEditFails ==
  /\ status_edit
  /\ status_edit' = FALSE
  /\ UNCHANGED <<state, user_data, screen, outcome>>
  /\ UNCHANGED vars

\* mutant of ShowBooks: the list is shown from its first page
ShowBooksFirstPage(handler, key, page_key, found, callback_prefix, view) ==
  LET books == Get(user_data, key, <<>>)
  IN  Handled(found, user_data,
              Message(view, create_book_list_keyboard(
                              books, 0, Len(books), callback_prefix)),
              Ran(handler))

\* the list of books stored under key, shown at the page stored under
\* page_key: the branches "back:book_results" and "back:author_books"
ShowBooks(handler, key, page_key, found, callback_prefix, view) ==
  LET books == Get(user_data, key, <<>>)
      page == Get(user_data, page_key, 0)
  IN  Handled(found, user_data,
              Message(view, create_book_list_keyboard(
                              books, page, Len(books), callback_prefix)),
              Ran(handler))

\* the branch "page:<prefix>:<n>" of the two handlers of book lists
TurnBookPage(handler, data, key, page_key, callback_prefix, view) ==
  LET books == Get(user_data, key, <<>>)
  IN  Handled(state, Put(user_data, page_key, data.n),
              Message(view, create_book_list_keyboard(
                              books, data.n, Len(books), callback_prefix)),
              Ran(handler))

\* the branch "<prefix>:<id>" of the two handlers of book lists
SelectBook(handler, data, key, back_to) ==
  LET book == FindById(Get(user_data, key, <<>>), data.id)
  IN  IF book = None
      THEN Handled("MAIN_MENU", user_data,
                   Message("book_not_found", create_main_menu), Ran(handler))
      ELSE Handled("SHOWING_BOOK_DETAILS",
                   Put(Put(user_data, "selected_book", book),
                       "back_to", back_to),
                   Message("book_details",
                           create_book_details_keyboard(book, back_to)),
                   Ran(handler))

\* next((l for l in book.download_links if l.format == fmt), None)
RECURSIVE FindByFormat(_, _)
FindByFormat(links, fmt) ==
  IF links = <<>> THEN None
  ELSE IF Head(links).format = fmt THEN Head(links)
       ELSE FindByFormat(Tail(links), fmt)

\* the characters of a filename: the last segment of a URL is one token
\* of the resolver and is spelled out here
RECURSIVE Characters(_)
Characters(filename) ==
  IF filename = <<>> THEN <<>>
  ELSE (IF Head(filename) = "book.fb2" THEN <<"book", ".", "fb2">>
        ELSE <<Head(filename)>>) \o Characters(Tail(filename))

\* filename.endswith(f'.{fmt}')
EndsWithFormat(filename, fmt) ==
  LET chars == Characters(filename)
  IN  /\ Len(chars) >= 2
      /\ chars[Len(chars) - 1] = "."
      /\ chars[Len(chars)] = fmt

\* c.isalnum() or c in (' ', '-', '_')
SafeChar(c) ==
  \/ c \in {" ", "-", "_"}
  \/ Code(c) \in (48..57) \cup (65..90) \cup (97..122) \cup (1040..1103)

\* "".join(c for c in book.title if ...).strip()[:50]
safe_title(title) ==
  LET kept == Strip(SelectSeq(title, SafeChar))
  IN  SubSeq(kept, 1, Min(50, Len(kept)))

\* mutant of SentFilename: the name the resolver derived is sent as it is
SentFilenameAsDerived(filename, title, fmt) == filename

\* handle_download, "Ensure proper filename": the name of the document
SentFilename(filename, title, fmt) ==
  IF ~EndsWithFormat(filename, fmt) THEN safe_title(title) \o <<".", fmt>>
  ELSE filename

\* what a run of handle_download did: the URL it asked download_book for
\* (None: no request), what download_book gave, and the document it sent
\* (None: no document)
Download(handler, data, requested, r, document) ==
  [handler |-> handler, data |-> data, requested |-> requested,
   result |-> r, document |-> document]

Document(content, filename) == [content |-> content, filename |-> filename]

\* mutant of DownloadFinished: a failed download leaves the conversation
\* at the details of the book
DownloadFinishedStays(handler, data, book, download_link, r, sent) ==
  IF IsRaised(r)
  THEN HandlerRaised(user_data,
                     Download(handler, data, download_link.url, r, None))
  ELSE IF r = None
  THEN Handled("SHOWING_BOOK_DETAILS", user_data,
               Message("download_failed", create_main_menu),
               Download(handler, data, download_link.url, r, None))
  ELSE Handled("MAIN_MENU", user_data,
               Message(IF sent THEN "book_sent" ELSE "send_failed",
                       create_main_menu),
               Download(handler, data, download_link.url, r,
                        IF sent
                        THEN Document(r.content,
                                      SentFilename(r.filename, book.title,
                                                   data.format))
                        ELSE None))

\* handle_download from the return of download_book on: the failure
\* message, or the document (sent: send_document did not raise) and the
\* message that follows it; an exception of download_book leaves the
\* handler
DownloadFinished(handler, data, book, download_link, r, sent) ==
  IF IsRaised(r)
  THEN HandlerRaised(user_data,
                     Download(handler, data, download_link.url, r, None))
  ELSE IF r = None
  THEN Handled("MAIN_MENU", user_data,
               Message("download_failed", create_main_menu),
               Download(handler, data, download_link.url, r, None))
  ELSE Handled("MAIN_MENU", user_data,
               Message(IF sent THEN "book_sent" ELSE "send_failed",
                       create_main_menu),
               Download(handler, data, download_link.url, r,
                        IF sent
                        THEN Document(r.content,
                                      SentFilename(r.filename, book.title,
                                                   data.format))
                        ELSE None))

\* the responses the file server gives the bot: none, one without the
\* header, and ones whose header names a file with an extension or
\* without one
BotDownloadResponses ==
  {DownloadResponse("transport_error", None, "")}
  \cup {DownloadResponse("ok", cd, "bytes") :
          cd \in {None,
                  Disposition(<<Param(FALSE, "\"",
                                      <<"book", "%20", "one", ".", "fb2">>)>>),
                  Disposition(<<Param(FALSE, "", <<"book", ".", "epub">>)>>),
                  Disposition(<<Param(FALSE, "\"", <<"plain">>)>>)}}

\* handle_download on "dl:<id>:<format>" (the data of a button always has
\* its three parts); the id of the data is not read
handle_download(handler, data) ==
  LET book == Get(user_data, "selected_book", None)
      download_link ==
        IF book = None THEN None
        ELSE FindByFormat(book.download_links, data.format)
  IN  IF book = None \/ download_link = None
      THEN Handled("SHOWING_BOOK_DETAILS", user_data, screen,
                   Download(handler, data, None, None, None))
      ELSE \E resp \in BotDownloadResponses, sent \in BOOLEAN :
              DownloadFinished(handler, data, book, download_link,
                               download_book(download_link.url, resp), sent)

\* book_results_handler on callback data
book_results_handler(data) ==
  IF "page" \in DOMAIN data /\ data.page = "book"
  THEN TurnBookPage("book_results_handler", data, "book_results",
                    "book_page", "book", "book_list")
  ELSE IF "item" \in DOMAIN data /\ data.item = "book"
  THEN SelectBook("book_results_handler", data, "book_results",
                  "book_results")
  ELSE IF "dl" \in DOMAIN data
  THEN handle_download("book_results_handler", data)
  ELSE IF data = BackData("main") THEN BackToMain("book_results_handler")
  ELSE IF data = BackData("book_results")
  THEN ShowBooks("book_results_handler", "book_results", "book_page",
                 "SHOWING_BOOK_RESULTS", "book", "book_list")
  ELSE Handled("SHOWING_BOOK_RESULTS", user_data, screen,
               Ran("book_results_handler"))

BookResultsHandler ==
  /\ state = "SHOWING_BOOK_RESULTS"
  /\ \E data \in Pressed : "dl" \notin DOMAIN data /\ book_results_handler(data)

\* author_results_handler on callback data
author_results_handler(data) ==
  IF "page" \in DOMAIN data /\ data.page = "author"
  THEN LET authors == Get(user_data, "author_results", <<>>)
       IN  Handled("SHOWING_AUTHOR_RESULTS",
                   Put(user_data, "author_page", data.n),
                   Message("author_list",
                           create_author_list_keyboard(
                             authors, data.n, Len(authors))),
                   Ran("author_results_handler"))
  ELSE IF "item" \in DOMAIN data /\ data.item = "author"
  THEN LET author == FindById(Get(user_data, "author_results", <<>>),
                              data.id)
           author_name == IF author # None THEN author.name
                          ELSE <<"cy_A", "cy_v", "cy_t", "cy_o", "cy_r">>
           ud == Put(Put(Put(user_data, "selected_author_id", data.id),
                         "selected_author_name", author_name),
                     "author_books_page", 0)
       IN  \E r \in BookOutcomes :
              SearchFinished(
                "author_results_handler", ud, r, "author_books",
                "SHOWING_AUTHOR_BOOKS",
                IF ~IsRaised(r) /\ ~NothingFound(r)
                THEN create_book_list_keyboard(r.items, 0, Len(r.items),
                                               "abook")
                ELSE <<>>,
                "abook_list")
  ELSE IF data = BackData("main") THEN BackToMain("author_results_handler")
  ELSE Handled("SHOWING_AUTHOR_RESULTS", user_data, screen,
               Ran("author_results_handler"))

AuthorResultsHandler ==
  /\ state = "SHOWING_AUTHOR_RESULTS"
  /\ \E data \in Pressed : author_results_handler(data)

\* author_books_handler on callback data
author_books_handler(data) ==
  IF "page" \in DOMAIN data /\ data.page = "abook"
  THEN TurnBookPage("author_books_handler", data, "author_books",
                    "author_books_page", "abook", "abook_list")
  ELSE IF "item" \in DOMAIN data /\ data.item = "abook"
  THEN SelectBook("author_books_handler", data, "author_books",
                  "author_books")
  ELSE IF "dl" \in DOMAIN data
  THEN handle_download("author_books_handler", data)
  ELSE IF data = BackData("main") THEN BackToMain("author_books_handler")
  ELSE IF data = BackData("author_books")
  THEN ShowBooks("author_books_handler", "author_books",
                 "author_books_page", "SHOWING_AUTHOR_BOOKS", "abook",
                 "abook_list")
  ELSE Handled("SHOWING_AUTHOR_BOOKS", user_data, screen,
               Ran("author_books_handler"))

AuthorBooksHandler ==
  /\ state = "SHOWING_AUTHOR_BOOKS"
  /\ \E data \in Pressed : "dl" \notin DOMAIN data /\ author_books_handler(data)

\* book_details_handler on callback data
book_details_handler(data) ==
  LET back_to == Get(user_data, "back_to", "main")
  IN  IF "dl" \in DOMAIN data
      THEN handle_download("book_details_handler", data)
      ELSE IF data = BackData("main") THEN BackToMain("book_details_handler")
      ELSE IF data = BackData("book_results")
              \/ ("back" \in DOMAIN data /\ back_to = "book_results")
      THEN ShowBooks("book_details_handler", "book_results", "book_page",
                     "SHOWING_BOOK_RESULTS", "book", "book_list")
      ELSE IF data = BackData("author_books")
              \/ ("back" \in DOMAIN data /\ back_to = "author_books")
      THEN ShowBooks("book_details_handler", "author_books",
                     "author_books_page", "SHOWING_AUTHOR_BOOKS", "abook",
                     "abook_list")
      ELSE Handled("SHOWING_BOOK_DETAILS", user_data, screen,
                   Ran("book_details_handler"))

BookDetailsHandler ==
  /\ state = "SHOWING_BOOK_DETAILS"
  /\ \E data \in Pressed : "dl" \notin DOMAIN data /\ book_details_handler(data)

\* a download button of the message on the screen
DownloadButton ==
  /\ state = "SHOWING_BOOK_DETAILS"
  /\ \E data \in Pressed : "dl" \in DOMAIN data /\ book_details_handler(data)

\* the download buttons of older messages of the chat: of a book of the
\* site's pages, of the book of the feed, and of a format no book offers
OlderDownloadData ==
  {DlData("1", "fb2"), DlData("2", "epub"), DlData("1", "x-custom"),
   DlData("1", "pdf")}

\* a download button of an older message: the callback handlers are
\* registered without a pattern, so the handler of the current state
\* gets the data
OlderDownloadButton ==
  \E data \in OlderDownloadData :
    CASE state \in {"MAIN_MENU", "AWAITING_BOOK_QUERY",
                    "AWAITING_AUTHOR_QUERY"} -> menu_handler(data)
      [] state = "SHOWING_BOOK_RESULTS" -> book_results_handler(data)
      [] state = "SHOWING_AUTHOR_RESULTS" -> author_results_handler(data)
      [] state = "SHOWING_AUTHOR_BOOKS" -> author_books_handler(data)
      [] state = "SHOWING_BOOK_DETAILS" -> book_details_handler(data)
      [] OTHER -> FALSE

\* an older message of the chat: the first page of a list of two pages,
\* with the page indicator between its arrows
OlderListMessage ==
  Message("book_list",
          create_book_list_keyboard(
            [i \in 1..(ITEMS_PER_PAGE + 1) |-> BotBook(i)], 0,
            ITEMS_PER_PAGE + 1, "book"))

\* the page indicator ("noop") of an older message
OlderNoopButton ==
  /\ NoopData \in RowsData(OlderListMessage.rows)
  /\ CASE state \in {"MAIN_MENU", "AWAITING_BOOK_QUERY",
                     "AWAITING_AUTHOR_QUERY"} ->
             menu_handler_on(NoopData, OlderListMessage)
        [] state = "SHOWING_BOOK_RESULTS" -> book_results_handler(NoopData)
        [] state = "SHOWING_AUTHOR_RESULTS" -> author_results_handler(NoopData)
        [] state = "SHOWING_AUTHOR_BOOKS" -> author_books_handler(NoopData)
        [] state = "SHOWING_BOOK_DETAILS" -> book_details_handler(NoopData)
        [] OTHER -> FALSE

NextBot ==
  \/ StartCommand
  \/ CancelCommand
  \/ MenuHandler
  \/ BookSearchHandler
  \/ AuthorSearchHandler
  \/ BookResultsHandler
  \/ AuthorResultsHandler
  \/ AuthorBooksHandler
  \/ BookDetailsHandler

SpecBot == Init /\ [][NextBot]_<<vars, botvars>>

\* the conversation with the edits of status_callback answered at any
\* time after they were scheduled
NextStatus ==
  \/ NextBot
  \/ BookSearchStatusOnItsWay
  \/ AuthorSearchStatusOnItsWay
  \/ StatusEditLands
  \/ StatusEditFails

SpecStatus == Init /\ [][NextStatus]_<<vars, botvars>>

\* the conversation of a user who searches books by title and downloads
\* them, pressing buttons of older messages too
NextDownload ==
  \/ StartCommand
  \/ CancelCommand
  \/ MenuHandler
  \/ BookSearchHandler
  \/ BookResultsHandler
  \/ BookDetailsHandler
  \/ DownloadButton
  \/ OlderDownloadButton
  \/ OlderNoopButton

SpecDownload == Init /\ [][NextDownload]_<<vars, botvars>>

----------------------------------------------------------------------------
(* Vocabulary of the properties *)

\* r is a SearchResult with at least one item
HasItems(r) == "items" \in DOMAIN r /\ Len(r.items) >= 1

\* the HTML adapter has returned, and returned nothing usable
HtmlUnproductive == http_result # Pending /\ ~HasItems(http_result)

\* positions of the log that hold a request to src
RequestsTo(src) ==
  {i \in 1..Len(log) : log[i].ev = "request" /\ log[i].src = src}

\* positions of the log that hold a response from src
RepliesFrom(src) ==
  {i \in 1..Len(log) : log[i].ev = "response" /\ log[i].src = src}

\* positions of the log that hold a call of the status sink
StatusCalls == {i \in 1..Len(log) : log[i].ev = "status"}

\* the operation has handed a value (a SearchResult or None) to its caller
Returned == pc = "done"

\* the sort key the specification names for an item: the lower-cased title
\* of a book, the lower-cased name of an author
ItemKey(item) ==
  IF "title" \in DOMAIN item THEN lower(item.title) ELSE lower(item.name)

----------------------------------------------------------------------------
(* C1 *)

\* C1: whenever the HTML adapter has returned a result with at least one
\* item, no request to the feed source is in the log of the operation, the
\* feed adapter has produced nothing, and the operation has returned the
\* HTML adapter's result.
C1_NoFeedWhenHtmlProductive ==
  (http_result # Pending /\ HasItems(http_result)) =>
     /\ RequestsTo("opds") = {}
     /\ opds_result = Pending
     /\ pc = "done"
     /\ result = http_result

\* each of the three operations has returned a non-empty HTML result
C1_Witness ==
  /\ pc = "done"
  /\ op = "get_author_books"
  /\ HasItems(http_result)
  /\ Len(http_result.items) >= 2
  /\ result.source = "http"

----------------------------------------------------------------------------
(* C2 *)

\* C2 as stated: whenever the HTML adapter was unproductive, what the
\* operation returns carries the source "opds" (the feed).
C2_Original ==
  (Returned /\ HtmlUnproductive) =>
     ("source" \in DOMAIN result /\ result.source = "opds")

\* C2 as amended: whenever the HTML adapter was unproductive, what the
\* operation returns is either None (the feed adapter was absent) or a
\* SearchResult whose source is "opds", also when it has zero items.
C2_FeedSourceOrAbsent ==
  (Returned /\ HtmlUnproductive) =>
     (result = None \/ ("source" \in DOMAIN result /\ result.source = "opds"))

\* HTML returned an empty result and the feed returned an empty result too
C2_Witness ==
  /\ Returned
  /\ http_result # Pending /\ http_result # None /\ http_result.items = <<>>
  /\ result # None /\ result.items = <<>> /\ result.source = "opds"

----------------------------------------------------------------------------
(* C3 *)

\* C3: no operation ever ends by raising: every operation that ends hands
\* a SearchResult or None to its caller.
C3_NeverRaises == pc # "raised"

----------------------------------------------------------------------------
(* C4 *)

\* C4: every request to the feed source comes after the HTML adapter has
\* returned an unproductive result, after every request to the HTML source
\* and its response, and no event of the HTML source follows it.
C4_Sequential ==
  \A j \in RequestsTo("opds") :
     /\ HtmlUnproductive
     /\ \A i \in 1..Len(log) : log[i].src = "http" => i < j
     /\ Cardinality(RequestsTo("http")) = Cardinality(RepliesFrom("http"))

\* an author bibliography that made two HTML requests and two feed requests
C4_Witness ==
  /\ pc = "done"
  /\ Cardinality(RequestsTo("http")) = 2
  /\ Cardinality(RequestsTo("opds")) = 2

----------------------------------------------------------------------------
(* C5 *)

\* C5 as stated: an operation issues at most one request to the HTML
\* source and at most one to the feed source.
C5_Original ==
  /\ Cardinality(RequestsTo("http")) <= 1
  /\ Cardinality(RequestsTo("opds")) <= 1

\* C5 as amended: search_books and search_authors issue at most one
\* request to the HTML source and at most one to the feed source;
\* get_author_books issues at most two to each (the plain author page after
\* a failed /alphabet request, the alphabetical listing after the author's
\* root document), never more than four in total; a feed request is issued
\* only when the HTML adapter was unproductive.
C5_BoundedRequests ==
  /\ op \in {"search_books", "search_authors"} =>
        /\ Cardinality(RequestsTo("http")) <= 1
        /\ Cardinality(RequestsTo("opds")) <= 1
  /\ op = "get_author_books" =>
        /\ Cardinality(RequestsTo("http")) <= 2
        /\ Cardinality(RequestsTo("opds")) <= 2
  /\ RequestsTo("opds") # {} => HtmlUnproductive

\* a search that fell back: one request to each source
C5_Witness ==
  /\ pc = "done"
  /\ op = "search_books"
  /\ Cardinality(RequestsTo("http")) = 1
  /\ Cardinality(RequestsTo("opds")) = 1
  /\ HasItems(result)

----------------------------------------------------------------------------
(* C6 *)

\* C6: the status sink is called at most once; when a sink was supplied
\* and the HTML adapter was unproductive, it has been called exactly once
\* by the time the feed adapter is entered, after every HTML event and
\* before every feed request; it is never called when the HTML adapter
\* returned at least one item or when no sink was supplied.
C6_StatusOnce ==
  /\ Cardinality(StatusCalls) <= 1
  /\ \A k \in StatusCalls :
        /\ args.status_callback
        /\ HtmlUnproductive
        /\ \A i \in 1..Len(log) : log[i].src = "http" => i < k
        /\ \A j \in 1..Len(log) : log[j].src = "opds" => k < j
  /\ (pc \in {"opds_send", "opds_wait", "done", "raised"}
      /\ HtmlUnproductive /\ args.status_callback)
        => Cardinality(StatusCalls) = 1
  /\ (http_result # Pending /\ HasItems(http_result)) => StatusCalls = {}

\* a fallback with a sink: the sink was called between the two adapters
C6_Witness ==
  /\ pc = "done"
  /\ args.status_callback
  /\ Cardinality(StatusCalls) = 1
  /\ RequestsTo("opds") # {}
  /\ HasItems(result)

----------------------------------------------------------------------------
(* C7 *)

\* C7: after a fallback the operation returns exactly what the feed
\* adapter produced (the same items in the same order, the same has_more,
\* or None); a result whose source is "opds" is the feed adapter's, a
\* result whose source is "http" is the HTML adapter's and no feed request
\* was made for it.
C7_NoMerging ==
  Returned =>
     /\ HtmlUnproductive => result = opds_result
     /\ (result # None /\ result.source = "opds") => result = opds_result
     /\ (result # None /\ result.source = "http") =>
           (result = http_result /\ RequestsTo("opds") = {})

\* HTML returned an empty page that announces a next page, the feed
\* returned two books and no next link
C7_Witness ==
  /\ Returned
  /\ http_result # Pending /\ http_result # None
  /\ http_result.items = <<>> /\ http_result.has_more
  /\ result # None /\ Len(result.items) = 2 /\ ~result.has_more
  /\ result.source = "opds"

----------------------------------------------------------------------------
(* C8 *)

\* C8: in every SearchResult of books returned by search_books or
\* get_author_books no two items carry the same id.
C8_UniqueBookIds ==
  (Returned /\ op \in {"search_books", "get_author_books"} /\ result # None)
     => \A i, j \in 1..Len(result.items) :
           result.items[i].id = result.items[j].id => i = j

----------------------------------------------------------------------------
(* C9 *)

\* a line of the search page from which _http_search_books extracts a book
Extracted(line) ==
  ~line.series /\ line.book # None /\ clean_html(line.book.text) # <<>>

\* line i is the first extracted line of its book id
FirstOfId(lines, i) ==
  /\ Extracted(lines[i])
  /\ \A k \in 1..(i - 1) :
        Extracted(lines[k]) => lines[k].book.id # lines[i].book.id

\* C9: in the result of an HTML book search every book id extracted from
\* the page occurs exactly once, with the cleaned title of its first
\* occurrence in document order, and no other book occurs.
C9_FirstOccurrenceWins ==
  (Returned /\ op = "search_books" /\ result # None /\ result.source = "http")
     => LET lines == html_content.lines
            items == result.items
        IN  /\ \A i \in 1..Len(lines) :
                  FirstOfId(lines, i) =>
                     /\ Cardinality({n \in 1..Len(items) :
                                       items[n].id = lines[i].book.id}) = 1
                     /\ \E n \in 1..Len(items) :
                           /\ items[n].id = lines[i].book.id
                           /\ items[n].title = clean_html(lines[i].book.text)
            /\ \A n \in 1..Len(items) :
                  \E i \in 1..Len(lines) :
                     FirstOfId(lines, i) /\ items[n].id = lines[i].book.id

\* the page lists book 1 first as "Z" and later as "a" (which sorts first),
\* and another book between them in title order
C9_Witness ==
  /\ Returned /\ op = "search_books" /\ result # None
  /\ result.source = "http"
  /\ Len(html_content.lines) = 3
  /\ html_content.lines[1].book = Anchor("1", <<"Z">>)
  /\ html_content.lines[2].book = Anchor("2", <<"M">>)
  /\ html_content.lines[3].book = Anchor("1", <<"a">>)
  /\ ~html_content.lines[1].series /\ ~html_content.lines[3].series
  /\ Len(result.items) = 2

----------------------------------------------------------------------------
(* C10 *)

\* C10: in every result an operation returns, from either source, the
\* items are in non-decreasing order of their lower-cased title (books) or
\* lower-cased name (authors).
C10_Sorted ==
  (Returned /\ result # None) =>
     \A i \in 1..(Len(result.items) - 1) :
        StrLeq(ItemKey(result.items[i]), ItemKey(result.items[i + 1]))

\* the page lists Z, a, M and the result is a, M, Z
C10_Witness ==
  /\ Returned /\ op = "search_books" /\ result # None
  /\ Len(html_content.lines) = 3
  /\ html_content.lines[1].book = Anchor("1", <<"Z">>)
  /\ html_content.lines[2].book = Anchor("2", <<"a">>)
  /\ html_content.lines[3].book = Anchor("3", <<"M">>)
  /\ Len(result.items) = 3
  /\ result.items[1].title = <<"a">>
  /\ result.items[2].title = <<"M">>
  /\ result.items[3].title = <<"Z">>

----------------------------------------------------------------------------
(* Vocabulary of the feed properties *)

\* the books of the result the feed adapter has returned
FeedBooks ==
  IF HasItems(opds_result) /\ op \in {"search_books", "get_author_books"}
  THEN {opds_result.items[i] : i \in 1..Len(opds_result.items)}
  ELSE {}

\* the download links of those books
FeedDownloadLinks ==
  UNION {{b.download_links[i] : i \in 1..Len(b.download_links)} :
           b \in FeedBooks}

\* the MIME types of the fixed table
TableTypes == DOMAIN format_map

----------------------------------------------------------------------------
(* C11 *)

\* C11 as stated: every download link the feed adapter kept whose MIME type
\* is in the fixed table carries the table's token, and a link of the
\* unmapped type application/x-custom carries the token "custom".
C11_Original ==
  \A l \in FeedDownloadLinks :
     /\ l.mime_type \in TableTypes => l.format = format_map[l.mime_type]
     /\ l.mime_type = <<"application", "x-custom">> => l.format = "custom"

\* C11 as amended: every download link the feed adapter kept whose MIME
\* type is in the fixed table carries the table's token, and a link of an
\* unmapped type carries the text after the last '/' of its MIME type
\* (application/x-custom gives x-custom).
C11_FormatMapping ==
  \A l \in FeedDownloadLinks :
     /\ l.mime_type \in TableTypes => l.format = format_map[l.mime_type]
     /\ l.mime_type \notin TableTypes =>
          l.format = l.mime_type[Len(l.mime_type)]

\* one feed result holds a link of a table type and a link of an unmapped
\* type, with the tokens fb2 and x-custom
C11_Witness ==
  /\ \E l \in FeedDownloadLinks :
        l.mime_type = <<"application", "fb2+zip">> /\ l.format = "fb2"
  /\ \E l \in FeedDownloadLinks :
        l.mime_type = <<"application", "x-custom">> /\ l.format = "x-custom"

----------------------------------------------------------------------------
(* C12 *)

\* the feed adapter has returned a SearchResult of books built from a
\* parsed document
FeedBookResultReady ==
  /\ op \in {"search_books", "get_author_books"}
  /\ "items" \in DOMAIN opds_result
  /\ "entries" \in DOMAIN xml_content

\* the link is an acquisition link that is not of the viewer type text/html
Downloadable(link) ==
  IsAcquisition(link.rel) /\ link.type # <<"text", "html">>

\* positions of the entries of the document with a downloadable link
DownloadableEntries ==
  {i \in 1..Len(xml_content.entries) :
     \E j \in 1..Len(xml_content.entries[i].links) :
        Downloadable(xml_content.entries[i].links[j])}

\* C12: every book of a result of the feed adapter (book search and author
\* bibliography) has at least one download link and no link of the viewer
\* type text/html; the result has exactly one item per entry of the
\* document with a downloadable link, so an entry whose acquisition links
\* are all of the viewer type, or that has no acquisition link, is absent.
C12_OnlyDownloadableBooks ==
  /\ \A b \in FeedBooks :
        /\ Len(b.download_links) >= 1
        /\ \A i \in 1..Len(b.download_links) :
              b.download_links[i].mime_type # <<"text", "html">>
  /\ FeedBookResultReady =>
        Len(opds_result.items) = Cardinality(DownloadableEntries)

\* a document of two entries, one with only a viewer link and one with a
\* viewer link before a downloadable one, gave one book with one link
C12_Witness ==
  /\ FeedBookResultReady
  /\ Len(xml_content.entries) = 2
  /\ \E i \in 1..2 : xml_content.entries[i].links = <<ViewerLink>>
  /\ \E i \in 1..2 :
        xml_content.entries[i].links = <<ViewerLink, Fb2Link("1")>>
  /\ Len(opds_result.items) = 1
  /\ Len(opds_result.items[1].download_links) = 1

----------------------------------------------------------------------------
(* Vocabulary of the download properties *)

\* download_book has returned a (content, filename) pair
DownloadDone == pc = "dl_done" /\ "filename" \in DOMAIN result

\* the response download_book built its result from
LastResponse == log[Len(log)].response

\* the response has no Content-Disposition header, or one without any
\* filename parameter
NoHeaderFilename ==
  LastResponse.cd = None \/ LastResponse.cd.params = <<>>

\* the text after the last '/' of the requested URL
LastSegment == url.segs[Len(url.segs)]

----------------------------------------------------------------------------
(* C13 *)

\* C13 as stated: when the response carries no filename in its
\* Content-Disposition header, download_book returns the final path
\* segment of the URL as the filename, and the placeholder "book" only
\* when the URL has no final path segment.
C13_Original ==
  (DownloadDone /\ NoHeaderFilename) =>
     result.filename =
       IF LastSegment # "" THEN <<LastSegment>> ELSE <<"book">>

\* C13 as amended: when the response carries no filename in its
\* Content-Disposition header, download_book returns the text after the
\* last '/' of the URL when that text contains a '.', and the placeholder
\* "book" otherwise (a URL ending in /b/123/epub yields book).
C13_UrlFilename ==
  (DownloadDone /\ NoHeaderFilename) =>
     result.filename =
       IF LastSegment \in DottedSegments THEN <<LastSegment>>
       ELSE <<"book">>

\* a download of .../b/123/epub without a header filename returned "book",
\* and there is a URL whose dotted last segment would be returned
C13_Witness ==
  /\ DownloadDone
  /\ NoHeaderFilename
  /\ LastSegment = "epub"
  /\ result.filename = <<"book">>
  /\ \E u \in DownloadUrls : u.segs[Len(u.segs)] \in DottedSegments

----------------------------------------------------------------------------
(* C14 *)

\* the value of a filename parameter, percent-decoded, surrounding blanks
\* aside
DecodedValue(p) == Strip([i \in 1..Len(p.value) |-> Unquote(p.value[i])])

\* the names the filename parameters of the response's header carry
HeaderNames ==
  IF LastResponse.cd = None THEN {}
  ELSE {DecodedValue(LastResponse.cd.params[i]) :
          i \in 1..Len(LastResponse.cd.params)} \ {<<>>}

\* C14: when the Content-Disposition header of the response carries a
\* filename parameter with a name in it, download_book returns that name
\* percent-decoded (filename="book%20one.fb2" yields "book one.fb2"), never
\* the name derived from the URL nor the placeholder.
C14_HeaderNameWins ==
  (DownloadDone /\ HeaderNames # {}) => Strip(result.filename) \in HeaderNames

----------------------------------------------------------------------------
(* C15 *)

\* C15: download_book never raises to its caller; what it returns is None
\* or a (content, filename) pair with a non-empty filename; it returns None
\* whenever the transport failed or the status was not a success; and it
\* sends one request at most, to no other source.
C15_DownloadContract ==
  /\ pc # "dl_raised"
  /\ op = "download_book" =>
        /\ Cardinality(RequestsTo("download")) <= 1
        /\ RequestsTo("http") = {} /\ RequestsTo("opds") = {}
  /\ pc = "dl_done" =>
        /\ result = None \/ (DownloadDone /\ result.filename # <<>>)
        /\ (log # <<>> /\ LastResponse.kind # "ok") => result = None

----------------------------------------------------------------------------
(* C16 *)

\* C16: in every result of the feed adapter's book search and author
\* search, has_more is true exactly when the parsed document has a link
\* with rel="next".
C16_HasMoreIsNextLink ==
  (/\ op \in {"search_books", "search_authors"}
   /\ "items" \in DOMAIN opds_result
   /\ "entries" \in DOMAIN xml_content)
  => (opds_result.has_more <=> xml_content.next)

----------------------------------------------------------------------------
(* C17 *)

\* the books of the result the operation has returned
ReturnedBooks ==
  IF Returned /\ HasItems(result)
     /\ op \in {"search_books", "get_author_books"}
  THEN {result.items[i] : i \in 1..Len(result.items)}
  ELSE {}

\* C17: every book of a returned result, from either source, has a
\* non-empty title and a non-empty id (an entry without a title or without
\* an id was skipped).
C17_TitleAndId ==
  \A b \in ReturnedBooks :
     b.title # <<>> /\ b.title # NoText /\ b.id # ""

----------------------------------------------------------------------------
(* C18 *)

\* the URL has a scheme and a host: it is neither a rooted path nor a
\* path without a leading slash
Absolute(u) == u.prefix \notin {"", "/"}

\* C18: every download link of every returned book has an absolute URL:
\* the links the HTML adapter builds start with the catalog base URL, and
\* every relative href of the feed, with or without a leading slash, is
\* resolved against the catalog base.
C18_AbsoluteUrls ==
  \A b \in ReturnedBooks :
     \A i \in 1..Len(b.download_links) :
        /\ Absolute(b.download_links[i].url)
        /\ result.source = "http" =>
              b.download_links[i].url.prefix = FLIBUSTA_BASE_URL

----------------------------------------------------------------------------
(* C19 *)

\* the handlers that call a search or author-books operation of the engine
SearchingHandlers ==
  {"book_search_handler", "author_search_handler", "author_results_handler"}

\* the result lists the session holds
StoredLists(ud) ==
  [k \in {"book_results", "author_results", "author_books"}
         \cap DOMAIN ud |-> ud[k]]

\* the step is a run of a searching handler to which the engine returned
\* a value
SearchReturned ==
  /\ "result" \in DOMAIN outcome'
  /\ outcome'.handler \in SearchingHandlers
  /\ ~IsRaised(outcome'.result)

\* C19: in every step in which a searching handler gets None or a result
\* with zero items from the engine, the handler shows the message "nothing
\* found" (it does not raise), leaves the result lists of the session as
\* they were and returns MAIN_MENU; and a searching handler moves the
\* conversation to a state that shows results only with a result of at
\* least one item.
C19_NothingFound ==
  [][SearchReturned =>
       /\ ~HasItems(outcome'.result) =>
             /\ screen'.view = "nothing_found"
             /\ StoredLists(user_data') = StoredLists(user_data)
             /\ state' = "MAIN_MENU"
       /\ state' \in {"SHOWING_BOOK_RESULTS", "SHOWING_AUTHOR_RESULTS",
                      "SHOWING_AUTHOR_BOOKS"} =>
             HasItems(outcome'.result)]_<<vars, botvars>>

\* the author-books operation returned None for an author picked from a
\* stored list of authors: the list of authors is still in the session, no
\* list of books was stored
C19_Witness ==
  /\ outcome = RanOn("author_results_handler", None)
  /\ state = "MAIN_MENU"
  /\ screen.view = "nothing_found"
  /\ "author_results" \in DOMAIN user_data
  /\ "author_books" \notin DOMAIN user_data

----------------------------------------------------------------------------
(* C20 *)

\* the messages that show a page of a stored list
ListViews == {"book_list", "author_list", "abook_list"}

\* the session key of the list a view shows, the key of its page index,
\* and the prefix of the callback data of its buttons
ListKey(view) ==
  CASE view = "book_list" -> "book_results"
    [] view = "author_list" -> "author_results"
    [] view = "abook_list" -> "author_books"
PageKey(view) ==
  CASE view = "book_list" -> "book_page"
    [] view = "author_list" -> "author_page"
    [] view = "abook_list" -> "author_books_page"
PrefixOf(view) ==
  CASE view = "book_list" -> "book"
    [] view = "author_list" -> "author"
    [] view = "abook_list" -> "abook"

\* the ids of the item buttons of a keyboard, from top to bottom
RECURSIVE ItemIds(_)
ItemIds(rows) ==
  IF rows = <<>> THEN <<>>
  ELSE (IF "item" \in DOMAIN Head(rows)[1] THEN <<Head(rows)[1].id>>
        ELSE <<>>) \o ItemIds(Tail(rows))

\* the page buttons of a keyboard
PageButtons(rows) == {d \in RowsData(rows) : "page" \in DOMAIN d}

\* the number of pages of a list of n items: the least k with
\* k * ITEMS_PER_PAGE >= n
PagesOf(n) == CHOOSE k \in 0..n : k * ITEMS_PER_PAGE >= n /\
                                  (k = 0 \/ (k - 1) * ITEMS_PER_PAGE < n)

\* C20: whenever the message shows a page of a stored list (books or
\* authors), with p the stored page index: p is within 0..total_pages-1;
\* the item buttons are exactly the stored items p*ITEMS_PER_PAGE up to
\* but excluding min((p+1)*ITEMS_PER_PAGE, length), at least one and at
\* most ITEMS_PER_PAGE; the navigation row exists exactly when the list
\* has more than ITEMS_PER_PAGE items; the previous button (to p-1) exists
\* exactly when p > 0 and the next button (to p+1) exactly when
\* p < total_pages-1.
C20_Pagination ==
  screen.view \in ListViews =>
    LET items == user_data[ListKey(screen.view)]
        p == user_data[PageKey(screen.view)]
        n == Len(items)
        lo == p * ITEMS_PER_PAGE
        hi == Min((p + 1) * ITEMS_PER_PAGE, n)
    IN  /\ p \in 0..(PagesOf(n) - 1)
        /\ ItemIds(screen.rows) = [i \in 1..(hi - lo) |-> items[lo + i].id]
        /\ Len(ItemIds(screen.rows)) \in 1..ITEMS_PER_PAGE
        /\ (NoopData \in RowsData(screen.rows)) <=> (n > ITEMS_PER_PAGE)
        /\ PageButtons(screen.rows) =
             (IF p > 0 THEN {PageData(PrefixOf(screen.view), p - 1)} ELSE {})
             \cup (IF p < PagesOf(n) - 1
                   THEN {PageData(PrefixOf(screen.view), p + 1)} ELSE {})

\* the last page of the longest list of an author's books is shown: it is
\* the third page at least, reached through the next buttons, with a
\* previous button and no next button
C20_Witness ==
  /\ screen.view = "abook_list"
  /\ Len(user_data["author_books"]) = MaxItems
  /\ user_data["author_books_page"] = PagesOf(MaxItems) - 1
  /\ user_data["author_books_page"] >= 2
  /\ Len(ItemIds(screen.rows)) < ITEMS_PER_PAGE
  /\ Cardinality(PageButtons(screen.rows)) = 1

----------------------------------------------------------------------------
(* C22 *)

\* the HTML adapter of get_author_books is running or has run
AuthorBooksHtml == op = "get_author_books"

\* positions of the log that hold a request of the HTML adapter for u
HttpRequestsFor(u) == {i \in RequestsTo("http") : log[i].url = u}

AlphabetRequests == HttpRequestsFor(HttpAlphabetUrl(args.author_id))
PlainRequests == HttpRequestsFor(HttpAuthorUrl(args.author_id))

\* the response to the request at position i has arrived
Answered(i) == i + 1 <= Len(log) /\ log[i + 1].ev = "response"

\* the plain page has been requested or is the request being prepared
PlainRequested ==
  \/ PlainRequests # {}
  \/ pc = "http_send" /\ url = HttpAuthorUrl(args.author_id)

\* the shape of the claim, for a reading NoPage(reply) of "the request
\* failed"
AuthorBooksRetry(NoPage(_)) ==
  AuthorBooksHtml =>
    /\ Cardinality(PlainRequests) <= 1
    /\ Cardinality(AlphabetRequests) <= 1
    /\ \A i \in PlainRequests :
          \E j \in AlphabetRequests : j < i /\ Answered(j)
    /\ \A j \in AlphabetRequests :
          Answered(j) => (PlainRequested <=> NoPage(log[j + 1]))
    /\ http_result # Pending =>
          /\ (\A i \in RequestsTo("http") : NoPage(log[i + 1]))
                => http_result = None
          /\ \A j \in AlphabetRequests :
                ~NoPage(log[j + 1]) =>
                   /\ RequestsTo("http") = {j}
                   /\ http_result # None
                   /\ HasItems(http_result) =>
                        http_result =
                          http_get_author_books(html_content, args.author_id)

\* a transport error or a non-success status
RequestFailed(reply) == ~reply.success

\* no text came back: a transport error, a non-success status, or a
\* success response with an empty body
NoContent(reply) == reply.empty

\* C22 as stated: the plain page of the author is requested if and only
\* if the request for the alphabetical page failed (transport error or
\* non-success status), at most once and only after it; the adapter is
\* absent when both requests fail; when the alphabetical request succeeds
\* the result is parsed from its response alone.
C22_Original == AuthorBooksRetry(RequestFailed)

\* C22, amended: the plain page of the author is requested if and only if
\* the request for the alphabetical page gave no text (it failed, or it
\* succeeded with an empty body), at most once and only after it; the
\* adapter is absent when both requests give no text; when the
\* alphabetical request gives a text the result is parsed from that
\* response alone.
C22_PlainPageRetry == AuthorBooksRetry(NoContent)

\* the alphabetical request got a success status and an empty body, the
\* plain page was requested and the books were parsed from it
C22_Witness ==
  /\ AuthorBooksHtml
  /\ PlainRequests # {}
  /\ \E j \in AlphabetRequests : log[j + 1].success /\ log[j + 1].empty
  /\ HasItems(http_result)
  /\ Len(log) = 4

----------------------------------------------------------------------------
(* C23 *)

\* the feed adapter of get_author_books gets the response to its first
\* request, or to its second
FeedRootAnswered ==
  /\ pc = "opds_wait" /\ op = "get_author_books"
  /\ url = OpdsAuthorUrl(args.author_id)
  /\ pc' # pc
FeedListingAnswered ==
  /\ pc = "opds_wait" /\ op = "get_author_books"
  /\ url # OpdsAuthorUrl(args.author_id)
  /\ pc' # pc

\* a well-formed feed document
IsFeed(doc) == "entries" \in DOMAIN doc

\* the title of the entry holds the keyword
TitleHasKeyword(e) ==
  /\ e.title # None
  /\ e.title.text # NoText
  /\ Contains(lower(e.title.text), AlphabetKey)

\* the hrefs by which the entries of a document indicate an alphabetical
\* listing: by the keyword in the title or by the path of the link
IndicatedHrefs(doc) ==
  UNION {{e.links[i].href :
            i \in {k \in 1..Len(e.links) :
                     TitleHasKeyword(e) \/ HrefHasAlphabet(e.links[k].href)}} :
         e \in {doc.entries[j] : j \in 1..Len(doc.entries)}}

\* the requests to the feed source in a log
FeedRequestsIn(l) ==
  {i \in 1..Len(l) : l[i].ev = "request" /\ l[i].src = "opds"}

\* the books of a feed document, as the adapter returns them
BooksOfDocument(doc) == SortByTitle(OpdsBooks(doc.entries))

----------------------------------------------------------------------------
(* C24 *)

\* the page a request to the HTML source asks for: the value of its
\* parameter 'page', the first page without one
HtmlPageAsked(u) == IF "page" \in DOMAIN u THEN u.page ELSE 0

\* the page a request to the feed source asks for
FeedPageAsked(u) == u.pageNumber

\* C24: while search_books or search_authors runs with the page index p,
\* every request of the HTML adapter asks the HTML source for page p and
\* every request of the feed adapter asks the feed source for page p, with
\* the query the caller gave.
C24_SamePage ==
  op \in {"search_books", "search_authors"} =>
    /\ \A i \in RequestsTo("http") :
          /\ HtmlPageAsked(log[i].url) = args.page
          /\ log[i].url.ask = quote(args.query)
    /\ \A i \in RequestsTo("opds") :
          /\ FeedPageAsked(log[i].url) = args.page
          /\ log[i].url.searchTerm = quote(args.query)

----------------------------------------------------------------------------
(* C25 *)

\* the decimal digits of a number, as str(n) writes them
RECURSIVE Decimal(_)
Decimal(n) == IF n < 10 THEN <<n>> ELSE Decimal(n \div 10) \o <<n % 10>>

\* a text in which 'page=' is followed by the digits of m holds the text
\* 'page=' followed by the digits of n
MarkContains(m, n) ==
  /\ Len(Decimal(n)) <= Len(Decimal(m))
  /\ SubSeq(Decimal(m), 1, Len(Decimal(n))) = Decimal(n)

\* the HTML adapter of search_books has returned a result
HtmlBookSearchReturned ==
  op = "search_books" /\ http_result # Pending /\ http_result # None

\* the response the HTML adapter got
HtmlReply == log[CHOOSE i \in RepliesFrom("http") : TRUE]

\* C25: the result of the HTML book search for page p has has_more = TRUE
\* exactly when the text of the response holds 'page=' followed by the
\* digits of p+1, whatever the number of books parsed.
C25_HasMoreIsPageMark ==
  HtmlBookSearchReturned =>
    (http_result.has_more <=>
       \E m \in HtmlReply.marks : MarkContains(m, args.page + 1))

\* no book was parsed from a page that holds the marker of the next page
C25_Witness ==
  /\ HtmlBookSearchReturned
  /\ http_result.items = <<>>
  /\ http_result.has_more
  /\ args.page + 1 \in HtmlReply.marks

----------------------------------------------------------------------------
(* C26 *)

\* the HTML adapter of get_author_books returned books of the page it read
AuthorPageParsed == op = "get_author_books" /\ HasItems(http_result)

\* the text of the anchor, cleaned, is one of the labels, whatever its case
IsLabel(a) == lower(clean_html(a.text)) \in LabelKeys

\* the positions of the anchors with a title: a text that is not empty
\* after cleaning and is no label
TitledAnchors(anchors) ==
  {i \in 1..Len(anchors) :
     clean_html(anchors[i].text) # <<>> /\ ~IsLabel(anchors[i])}

\* C26: in a result of the HTML author bibliography no book has a label as
\* its title, and every book id that some anchor of the page gives a title
\* is returned exactly once, with the cleaned text of the first anchor
\* that gives it a title, also when anchors with a label and the same id
\* come before it.
C26_LabelsSkipped ==
  AuthorPageParsed =>
    LET anchors == html_content.anchors
        items == http_result.items
        titled == TitledAnchors(anchors)
    IN  /\ \A k \in 1..Len(items) : lower(items[k].title) \notin LabelKeys
        /\ {items[k].id : k \in 1..Len(items)} = {anchors[i].id : i \in titled}
        /\ \A i \in titled :
              /\ Cardinality({k \in 1..Len(items) :
                                items[k].id = anchors[i].id}) = 1
              /\ (\A j \in titled : anchors[j].id = anchors[i].id => i <= j)
                   => \E k \in 1..Len(items) :
                         /\ items[k].id = anchors[i].id
                         /\ items[k].title = clean_html(anchors[i].text)

\* a label anchor comes before an anchor with the same id and a title, and
\* the book is returned
C26_Witness ==
  /\ AuthorPageParsed
  /\ \E i, j \in 1..Len(html_content.anchors) :
        /\ i < j
        /\ IsLabel(html_content.anchors[i])
        /\ j \in TitledAnchors(html_content.anchors)
        /\ html_content.anchors[i].id = html_content.anchors[j].id
        /\ \E k \in 1..Len(http_result.items) :
              http_result.items[k].id = html_content.anchors[j].id

----------------------------------------------------------------------------
(* C27 *)

\* the HTML adapter of search_authors has returned a result
HtmlAuthorSearchReturned ==
  op = "search_authors" /\ http_result # Pending /\ http_result # None

\* the positions of the anchors of the list that carry a name
NamedAnchors(section) ==
  {i \in 1..Len(section) : clean_html(section[i].text) # <<>>}

\* C27: every author of a result of the HTML author search has a name and
\* is the first named anchor of its id in the list under the heading
\* 'found writers', no id is returned twice, and an anchor outside the
\* list gives no author; a page without the heading gives zero items, and
\* with zero items the orchestrator does not return before it has sent a
\* request to the feed.
C27_AuthorSection ==
  HtmlAuthorSearchReturned =>
    LET items == http_result.items
        reply == log[CHOOSE i \in RepliesFrom("http") : TRUE]
    IN  /\ ~reply.heading => items = <<>>
        /\ items = <<>> /\ pc \in {"done", "raised"}
             => RequestsTo("opds") # {}
        /\ \A k, l \in 1..Len(items) : items[k].id = items[l].id => k = l
        /\ HasItems(http_result) =>
             LET section == html_content.section
                 named == NamedAnchors(section)
             IN  \A k \in 1..Len(items) :
                    /\ items[k].name # <<>>
                    /\ \E i \in named :
                          /\ section[i].id = items[k].id
                          /\ clean_html(section[i].text) = items[k].name
                          /\ \A j \in named :
                                section[j].id = section[i].id => i <= j

\* an author anchor outside the list is not returned, and an id that
\* occurs twice in the list is returned with its first name
C27_Witness ==
  /\ HtmlAuthorSearchReturned
  /\ HasItems(http_result)
  /\ html_content.outside # <<>>
  /\ \A k \in 1..Len(http_result.items) : http_result.items[k].id # "8"
  /\ \E i, j \in NamedAnchors(html_content.section) :
        /\ i < j
        /\ html_content.section[i].id = html_content.section[j].id
        /\ clean_html(html_content.section[i].text)
             # clean_html(html_content.section[j].text)

----------------------------------------------------------------------------
(* C28 *)

\* the HTML adapter has returned a list of books
HtmlBooksReturned ==
  /\ op \in {"search_books", "get_author_books"}
  /\ http_result # Pending /\ http_result # None

\* the formats of the links the HTML adapter gives a book, in their order
HtmlFormats == <<"fb2", "epub", "mobi">>

\* C28: every book of a result of the HTML adapter (book search and author
\* bibliography) has exactly three download links, of the formats fb2,
\* epub, mobi in this order, and the url of each is the catalog base URL
\* followed by /b/, the id of that book and the format.
C28_ThreeLinks ==
  HtmlBooksReturned =>
    \A k \in 1..Len(http_result.items) :
       LET book == http_result.items[k]
       IN  /\ Len(book.download_links) = Len(HtmlFormats)
           /\ \A i \in 1..Len(HtmlFormats) :
                 /\ book.download_links[i].format = HtmlFormats[i]
                 /\ book.download_links[i].url.prefix = FLIBUSTA_BASE_URL
                 /\ book.download_links[i].url.segs
                      = <<"b", book.id, HtmlFormats[i]>>

\* the author bibliography of the HTML adapter holds two books, of
\* different ids
C28_Witness ==
  /\ HtmlBooksReturned
  /\ op = "get_author_books"
  /\ Len(http_result.items) >= 2
  /\ http_result.items[1].id # http_result.items[2].id

----------------------------------------------------------------------------
(* C29 *)

\* positions of the log that hold a probe of src, and the end of one
ProbesOf(src) == {i \in 1..Len(log) : log[i].ev = "probe" /\ log[i].src = src}
ProbeEnds == {i \in 1..Len(log) : log[i].ev = "probe_end"}

\* the probe got a response with a success status (2xx)
GotSuccessStatus(o) ==
  "status_code" \in DOMAIN o /\ o.status_code \in 200..299

\* the probe got a response with the status 200
GotStatus200(o) == "status_code" \in DOMAIN o /\ o.status_code = 200

\* the shape of the claim, for a reading Succeeded(outcome) of "the probe
\* succeeded"
ConnectionCheck(Succeeded(_)) ==
  /\ op = "check_connection" =>
       /\ pc \in {"probe_send", "probe_wait", "probe_done"}
       /\ Cardinality(ProbesOf("http")) <= 1
       /\ Cardinality(ProbesOf("opds")) <= 1
       /\ \A j \in ProbesOf("opds") :
             \E i \in ProbeEnds :
                i < j /\ log[i].src = "http" /\ ~Succeeded(log[i].outcome)
       /\ \A i \in ProbeEnds :
             (log[i].src = "http" /\ ~Succeeded(log[i].outcome)) =>
                (ProbesOf("opds") # {} \/ pc = "probe_send")
       /\ pc = "probe_done" =>
             /\ result.success <=>
                  \E i \in ProbeEnds : Succeeded(log[i].outcome)
             /\ result.success =>
                  \E i \in ProbeEnds :
                     Succeeded(log[i].outcome) /\ log[i].src = result.source
             /\ ~result.success =>
                  /\ {log[i].src : i \in ProbeEnds} = {"http", "opds"}
                  /\ \A i \in ProbeEnds : ~Succeeded(log[i].outcome)
       /\ http_result = Pending /\ opds_result = Pending
       /\ html_content = None /\ xml_content = None
  /\ pc = "idle" =>
       /\ log = <<>> /\ result = Pending
       /\ http_result = Pending /\ opds_result = Pending
       /\ html_content = None /\ xml_content = None

\* C29 as stated: check_connection probes the HTML source first and the
\* feed source only when the HTML probe did not get a success status; it
\* reports success exactly when a probe got a success status, naming the
\* source of that probe, reports failure only when both probes failed,
\* never raises, and leaves nothing behind in the client that a later
\* search operation reads.
C29_Original == ConnectionCheck(GotSuccessStatus)

\* C29, amended: the same with "the probe got the status 200" in the place
\* of "the probe got a success status".
C29_CheckConnection == ConnectionCheck(GotStatus200)

\* the HTML probe got a response that is not 200, the feed probe got 200,
\* and check_connection reported the feed source
C29_Witness ==
  /\ op = "check_connection" /\ pc = "probe_done"
  /\ result = CheckResult(TRUE, "opds")
  /\ \E i \in ProbeEnds :
        log[i].src = "http" /\ "status_code" \in DOMAIN log[i].outcome

----------------------------------------------------------------------------
(* C21 *)

\* handle_download has run through to send_document, which did not raise
DocumentSent == "document" \in DOMAIN outcome /\ outcome.document # None

\* the text ends in '.' followed by the format
EndsInDotFormat(filename, fmt) ==
  LET chars == Characters(filename)
      n == Len(chars)
  IN  n >= 2 /\ SubSeq(chars, n - 1, n) = <<".", fmt>>

\* C21: every document sent to the user has a filename that ends in '.'
\* followed by the format of the pressed button, and a filename of the
\* resolver that already ends that way is the filename of the document.
C21_DocumentFilename ==
  DocumentSent =>
    /\ EndsInDotFormat(outcome.document.filename, outcome.data.format)
    /\ EndsInDotFormat(outcome.result.filename, outcome.data.format) =>
         outcome.document.filename = outcome.result.filename

\* the resolver took a name without an extension from the header, and the
\* document is named after the title of the book, without its punctuation
C21_Witness ==
  /\ DocumentSent
  /\ outcome.result.filename = <<"plain">>
  /\ user_data["selected_book"].title = <<"Z", "!">>
  /\ outcome.document.filename = <<"Z", ".", "fb2">>

----------------------------------------------------------------------------
(* C30 *)

\* the step is a run of handle_download
DownloadRan == "document" \in DOMAIN outcome'

\* the session has no selected book, or that book has no link of the
\* format of the pressed button
NothingToDownload ==
  \/ "selected_book" \notin DOMAIN user_data
  \/ \A i \in 1..Len(user_data["selected_book"].download_links) :
       user_data["selected_book"].download_links[i].format
         # outcome'.data.format

\* download_book was called and returned absent
DownloadAbsent == outcome'.requested # None /\ outcome'.result = None

\* download_book returned content and a filename
DownloadGiven == "content" \in DOMAIN outcome'.result

\* C30: when download_book returns absent, handle_download sends no
\* document, shows the failure message and the conversation is in
\* MAIN_MENU; when download_book returns a file, the conversation is in
\* MAIN_MENU whether the document was sent or sending failed; when there is
\* no selected book or it has no link of the requested format, download_book
\* is not called and the state is SHOWING_BOOK_DETAILS.
C30_DownloadFailure ==
  [][DownloadRan =>
       /\ DownloadAbsent =>
            /\ outcome'.document = None
            /\ screen'.view = "download_failed"
            /\ state' = "MAIN_MENU"
       /\ DownloadGiven =>
            /\ screen'.view \in {"book_sent", "send_failed"}
            /\ screen'.view = "book_sent" <=> outcome'.document # None
            /\ state' = "MAIN_MENU"
       /\ NothingToDownload =>
            /\ outcome'.requested = None
            /\ state' = "SHOWING_BOOK_DETAILS"]_<<vars, botvars>>

\* the relative href of the feed's link made download_book return absent
C30_Witness ==
  /\ "document" \in DOMAIN outcome
  /\ outcome.data.format = "x-custom"
  /\ outcome.requested = Url("", <<"b", "2", "custom">>)
  /\ outcome.result = None
  /\ outcome.document = None
  /\ screen.view = "download_failed"
  /\ state = "MAIN_MENU"

\* the cases without a request: a download button of an older message
\* pressed on a list, with no book selected, and on the details of a book
\* that has no link of that format
NoBookCase ==
  /\ "document" \in DOMAIN outcome
  /\ outcome.handler = "book_results_handler"
  /\ "selected_book" \notin DOMAIN user_data
  /\ state = "SHOWING_BOOK_DETAILS"

NoLinkCase ==
  /\ "document" \in DOMAIN outcome
  /\ outcome.data.format = "pdf"
  /\ "selected_book" \in DOMAIN user_data
  /\ outcome.requested = None
  /\ state = "SHOWING_BOOK_DETAILS"

----------------------------------------------------------------------------
(* C31 *)

\* the positions of the log where the status callback raised
RaisedStatusCalls ==
  {i \in 1..Len(log) : log[i].ev = "status" /\ log[i].raised}

\* C31: a status callback that raises does not end the operation: the
\* next thing the operation does is the first request of the feed adapter,
\* for the URL it would ask without the exception, and the operation ends
\* with the feed adapter's outcome (its result, or what it raised).
C31_SinkExceptionSwallowed ==
  \A i \in RaisedStatusCalls :
    /\ i = Len(log) => pc = "opds_send" /\ url = FirstOpdsUrl(op, args)
    /\ i < Len(log) => log[i + 1] = Request("opds", FirstOpdsUrl(op, args))
    /\ pc = "done" => opds_result # Pending /\ result = opds_result
    /\ pc = "raised" => IsRaised(opds_result)

\* the callback raised and the operation returned the list of the feed
C31_Witness ==
  /\ pc = "done"
  /\ RaisedStatusCalls # {}
  /\ HasItems(result)
  /\ result.source = "opds"

----------------------------------------------------------------------------
(* C32 *)

\* the handler that ran last is one that searched, and it has returned
SearchHandlerReturned ==
  /\ outcome.handler \in {"book_search_handler", "author_search_handler",
                          "author_results_handler"}
  /\ "result" \in DOMAIN outcome

\* C32: the status text is applied to the message before the final edit
\* of the searching handler, in every interleaving: once the handler has
\* returned, the message does not show the status text in place of the
\* result list or of 'nothing found'.
C32_StatusBeforeFinal ==
  SearchHandlerReturned => screen.view # "status"

----------------------------------------------------------------------------
(* C33 *)

\* handle_download called download_book
DownloadRequested == "requested" \in DOMAIN outcome /\ outcome.requested # None

\* C33: whenever handle_download fetches a file for the data
\* dl:<book_id>:<format>, the book it takes the link from has the id
\* <book_id>, and the URL fetched is a link of that book with the format
\* <format>.
C33_DownloadMatchesRequest ==
  DownloadRequested =>
    LET book == user_data["selected_book"]
    IN  /\ book.id = outcome.data.dl
        /\ \E i \in 1..Len(book.download_links) :
             /\ book.download_links[i].url = outcome.requested
             /\ book.download_links[i].format = outcome.data.format

----------------------------------------------------------------------------
(* C34 *)

\* the step opens the details of a book from a displayed list of books
BookOpened ==
  /\ screen.view \in {"book_list", "abook_list"}
  /\ screen'.view = "book_details"

\* the positions, in the stored list, of the items the displayed page
\* has buttons for
DisplayedPositions ==
  LET n == Len(user_data[ListKey(screen.view)])
      p == user_data[PageKey(screen.view)]
  IN  {k \in 1..n : p * ITEMS_PER_PAGE < k /\ k <= (p + 1) * ITEMS_PER_PAGE}

\* C34: selecting an entry of a displayed list opens the item the pressed
\* button was rendered for: whichever displayed button carries the id of
\* the data, the book opened is the item of that button.
C34_OpensPressedItem ==
  [][BookOpened =>
       \A k \in DisplayedPositions :
         user_data[ListKey(screen.view)][k].id
             = user_data'["selected_book"].id
           => user_data'["selected_book"]
                = user_data[ListKey(screen.view)][k]]_<<vars, botvars>>

----------------------------------------------------------------------------
(* C35 *)

\* the seven states bot.py declares
DeclaredStates ==
  {"MAIN_MENU", "AWAITING_BOOK_QUERY", "AWAITING_AUTHOR_QUERY",
   "SHOWING_BOOK_RESULTS", "SHOWING_AUTHOR_RESULTS", "SHOWING_AUTHOR_BOOKS",
   "SHOWING_BOOK_DETAILS"}

\* C35: every handler returns one of the seven declared states, so once
\* the conversation has started its state is always one of them.
C35_DeclaredStatesOnly ==
  state # NoConversation => state \in DeclaredStates

----------------------------------------------------------------------------
(* C36 *)

\* the step is /start, /cancel or a handler's answer to "back:main"
ResetRequested ==
  \/ outcome'.handler \in {"start_command", "cancel_command"}
  \/ "data" \in DOMAIN outcome' /\ outcome'.data = BackData("main")

\* C36: the callback back:main and the commands /start and /cancel leave
\* the session data empty and the conversation in MAIN_MENU, from every
\* state of the conversation.
C36_SessionReset ==
  [][ResetRequested => user_data' = EmptyDict /\ state' = "MAIN_MENU"
    ]_<<vars, botvars>>

\* back:main pressed on the details of a book, where the session held the
\* list, the page and the selected book
C36_Witness ==
  /\ outcome = RanOnData("book_details_handler", BackData("main"))
  /\ user_data = EmptyDict
  /\ state = "MAIN_MENU"

----------------------------------------------------------------------------
(* C37 *)

\* the details of a book are on the screen and book_details_handler
\* answers a button other than a download button and the main menu
\* button: the back button, the only other button of that message
BackPressed ==
  /\ state = "SHOWING_BOOK_DETAILS"
  /\ screen.view = "book_details"
  /\ outcome' = Ran("book_details_handler")

\* the message shows the page of the list stored under key that the index
\* stored under page_key names
ShowsStoredPage(message, session, key, page_key) ==
  LET items == session[key]
      lo == session[page_key] * ITEMS_PER_PAGE
      hi == Min(lo + ITEMS_PER_PAGE, Len(items))
  IN  /\ lo < hi
      /\ ItemIds(message.rows) = [i \in 1..(hi - lo) |-> items[lo + i].id]

\* C37: the back button of the details of a book returns to the list the
\* book was opened from (the handler that opened it is the one that ran
\* last), shows the page of that list whose index the session holds, and
\* leaves the session data as it was.
C37_BackToResults ==
  [][BackPressed =>
       /\ user_data' = user_data
       /\ outcome.handler = "book_results_handler" =>
            /\ state' = "SHOWING_BOOK_RESULTS"
            /\ screen'.view = "book_list"
            /\ ShowsStoredPage(screen', user_data, "book_results",
                               "book_page")
       /\ outcome.handler = "author_books_handler" =>
            /\ state' = "SHOWING_AUTHOR_BOOKS"
            /\ screen'.view = "abook_list"
            /\ ShowsStoredPage(screen', user_data, "author_books",
                               "author_books_page")
       /\ outcome.handler \in {"book_results_handler",
                               "author_books_handler"}]_<<vars, botvars>>

\* back from the details of a book of the second page of an author's books
C37_Witness ==
  /\ outcome = Ran("book_details_handler")
  /\ state = "SHOWING_AUTHOR_BOOKS"
  /\ screen.view = "abook_list"
  /\ user_data["author_books_page"] = 1
  /\ user_data["back_to"] = "author_books"
  /\ ShowsStoredPage(screen, user_data, "author_books", "author_books_page")

====
